---- MODULE Spec2Model ----
(***************************************************************************)
(* A model of the wikilanguage batch pipeline.                             *)
(*                                                                         *)
(* Part I models WikipediaCanonicalPageResolver.resolve_parsed_pages       *)
(* (wikipedia_parser.py): the partition of the parsed pages into terminal  *)
(* articles and redirects, the redirect chaser, the link rewriter and the  *)
(* final popitem loop.                                                     *)
(*                                                                         *)
(* Titles are sequences of characters, so that str.capitalize and          *)
(* str.startswith are computed and not assumed.  A Python dict is a record *)
(* [keys, val]: keys is the insertion order (the order dict.items() and    *)
(* dict.values() iterate in), val the mapping.  A Counter is a function    *)
(* from its keys to counts; a missing key counts 0.                        *)
(***************************************************************************)
EXTENDS Integers, Sequences, FiniteSets, TLC

\* Python's None where a title (a string) is expected: a one-element
\* sequence whose element is no character, so it equals no title.
None == <<"None">>

\* Python's None where a float is expected (pagerank, pagerank_percentile).
NoneFloat == -1

(***************************************************************************)
(* Strings                                                                 *)
(***************************************************************************)
Upper(c) ==
    CASE c = "a" -> "A" [] c = "b" -> "B" [] c = "n" -> "N" [] c = "y" -> "Y"
      [] c = "z" -> "Z" [] OTHER -> c

Lower(c) ==
    CASE c = "A" -> "a" [] c = "B" -> "b" [] c = "N" -> "n" [] c = "Y" -> "y"
      [] c = "Z" -> "z" [] c = "C" -> "c" [] c = "D" -> "d" [] c = "F" -> "f"
      [] OTHER -> c

\* str.capitalize(): first character upper-cased, all the others lower-cased.
capitalize(s) ==
    IF s = <<>> THEN s
    ELSE <<Upper(s[1])>> \o [i \in 1..(Len(s) - 1) |-> Lower(s[i + 1])]

startswith(s, prefix) ==
    /\ Len(s) >= Len(prefix)
    /\ SubSeq(s, 1, Len(prefix)) = prefix

FilePrefix == <<"F", "i", "l", "e", ":">>
ImagePrefix == <<"I", "m", "a", "g", "e", ":">>

\* Truthiness of an Optional[str]: None and "" are both false.
Truthy(s) == s # None /\ s # <<>>

(***************************************************************************)
(* dict and Counter                                                        *)
(***************************************************************************)
EmptyDict == [keys |-> <<>>, val |-> <<>>]

DictHas(d, k) == k \in DOMAIN d.val

\* d[k] = v: a new key goes last, an existing key keeps its position.
DictSet(d, k, v) ==
    [keys |-> IF DictHas(d, k) THEN d.keys ELSE Append(d.keys, k),
     val  |-> (k :> v) @@ d.val]

\* The dict without its last inserted key (dict.popitem()).
DictPopLast(d) ==
    LET n == Len(d.keys)
        k == d.keys[n]
    IN  [keys |-> SubSeq(d.keys, 1, n - 1),
         val  |-> [x \in (DOMAIN d.val) \ {k} |-> d.val[x]]]

EmptyCounter == <<>>

CounterGet(c, k) == IF k \in DOMAIN c THEN c[k] ELSE 0

\* c[k] += n
CounterAdd(c, k, n) ==
    IF k \in DOMAIN c THEN [c EXCEPT ![k] = @ + n] ELSE (k :> n) @@ c

(***************************************************************************)
(* Bounds and inputs of the resolver                                       *)
(***************************************************************************)
\* Longest generic collection of parsed pages.
MaxPages == 3

tA == <<"A">>
tB == <<"B">>
tC == <<"C">>
tD == <<"D">>
tNY == <<"N", "Y">>
tZzz == <<"Z", "z", "z">>

\* Titles of the generic pages; tNY has a capital after its first character.
PageTitles == {tA, tB, tNY}

\* What a redirect page may point at: a page title or a title of no page.
RedirectTargets == PageTitles \cup {tZzz}

\* The link Counters of the generic terminal pages: direct links, a link that
\* only matches capitalised, a link whose capitalize() lower-cases a needed
\* capital, two raw links with one target, a dead link and a file link.
LinkChoices ==
    { EmptyCounter,
      (tA :> 1),
      (tB :> 2) @@ (tNY :> 1),
      (<<"a">> :> 2) @@ (tA :> 1),
      (<<"n", "Y">> :> 1) @@ (<<"b">> :> 1),
      (tZzz :> 1) @@ (FilePrefix \o <<"x">> :> 2) }

ParsedRawPage(id, title, redirect, links) ==
    [id |-> id, title |-> title, redirect |-> redirect, links |-> links]

\* The shapes of one generic page (its id is its position in the dump).
PageShapes ==
    [title : PageTitles, redirect : RedirectTargets, links : {EmptyCounter}]
      \cup [title : PageTitles, redirect : {None}, links : LinkChoices]

\* spec.md scenario 1: A->B, B->C, C terminal with links {D:1}, D terminal.
ChainScenario ==
    << ParsedRawPage(1, tA, tB, EmptyCounter),
       ParsedRawPage(2, tB, tC, EmptyCounter),
       ParsedRawPage(3, tC, None, (tD :> 1)),
       ParsedRawPage(4, tD, None, EmptyCounter) >>

\* spec.md scenario 2: A->B, B->A, C terminal.
CycleScenario ==
    << ParsedRawPage(1, tA, tB, EmptyCounter),
       ParsedRawPage(2, tB, tA, EmptyCounter),
       ParsedRawPage(3, tC, None, EmptyCounter) >>

\* spec.md scenario 3: A->Zzz, B terminal.
DanglingScenario ==
    << ParsedRawPage(1, tA, tZzz, EmptyCounter),
       ParsedRawPage(2, tB, None, EmptyCounter) >>

Reorderings(pages) ==
    { [i \in 1..Len(pages) |-> pages[f[i]]] : f \in Permutations(1..Len(pages)) }

\* The generic collection of n pages with the shapes sh.
GenericInput(n, sh) ==
    [i \in 1..n |-> ParsedRawPage(i, sh[i].title, sh[i].redirect, sh[i].links)]

\* The scenarios of spec.md, in every order of their pages.
ScenarioInputs ==
    Reorderings(ChainScenario) \cup Reorderings(CycleScenario)
      \cup Reorderings(DanglingScenario)

(***************************************************************************)
(* resolve_parsed_pages: the body of each loop                             *)
(***************************************************************************)
WikipediaCanonicalPage(id, title, aliases, links, inlinks, pagerank, pagerank_percentile) ==
    [id |-> id, title |-> title, aliases |-> aliases, links |-> links,
     inlinks |-> inlinks, pagerank |-> pagerank,
     pagerank_percentile |-> pagerank_percentile]

\* Lines 360-372: one page of the "Parsing pages" loop.
PartitionPage(ttwp, rdr, p) ==
    IF Truthy(p.redirect)
    THEN [ttwp |-> ttwp, redirects |-> DictSet(rdr, p.title, p.redirect)]
    ELSE [ttwp |-> DictSet(ttwp, p.title,
                      WikipediaCanonicalPage(p.id, p.title, {}, p.links,
                                             EmptyCounter, NoneFloat, NoneFloat)),
          redirects |-> rdr]

\* Line 381 hoisted out of the for loop: the walk starts from the pointers
\* that the walks of the earlier sources have seen.
SeenPagesCarried(previous) == previous

\* Line 381: seen_pages = set(), whatever the previous walk left in it.
SeenPagesAtStart(previous) == {}

\* A walk that stops at its first pointer when that is no terminal title.
ChaseOneHop(resolution_pointer, seen, ttwp, rdr) ==
    IF resolution_pointer \in seen
    THEN [kind |-> "circle", pointer |-> resolution_pointer, seen |-> seen]
    ELSE IF DictHas(ttwp, resolution_pointer)
         THEN [kind |-> "resolved", pointer |-> resolution_pointer,
               seen |-> seen \cup {resolution_pointer}]
         ELSE [kind |-> "unresolvable", pointer |-> resolution_pointer,
               seen |-> seen \cup {resolution_pointer}]

\* Lines 382-402: the while loop that follows one redirect chain.
RECURSIVE Chase(_, _, _, _)
Chase(resolution_pointer, seen, ttwp, rdr) ==
    IF resolution_pointer \in seen
    THEN [kind |-> "circle", pointer |-> resolution_pointer, seen |-> seen]
    ELSE IF DictHas(ttwp, resolution_pointer)
         THEN [kind |-> "resolved", pointer |-> resolution_pointer,
               seen |-> seen \cup {resolution_pointer}]
         ELSE IF DictHas(rdr, resolution_pointer)
              THEN Chase(rdr.val[resolution_pointer],
                         seen \cup {resolution_pointer}, ttwp, rdr)
              ELSE [kind |-> "unresolvable", pointer |-> resolution_pointer,
                    seen |-> seen \cup {resolution_pointer}]

\* Lines 379-402: one redirect source of the "Creating aliases" loop.
ResolveRedirect(ttwp, rdr, title, previous_seen) ==
    LET r == Chase(rdr.val[title], SeenPagesAtStart(previous_seen), ttwp, rdr)
    IN  [ttwp |-> IF r.kind = "resolved"
                  THEN [ttwp EXCEPT !.val[r.pointer].aliases = @ \cup {title}]
                  ELSE ttwp,
         redirects |-> [rdr EXCEPT !.val[title] =
                            IF r.kind = "resolved" THEN r.pointer ELSE None],
         kind |-> r.kind,
         seen |-> r.seen]

\* Lines 424-437: one candidate spelling of a link; None when it matches
\* neither a resolved redirect nor a terminal title.
LinkTarget(link, ttwp, rdr) ==
    IF DictHas(rdr, link) /\ rdr.val[link] # None
    THEN rdr.val[link]
    ELSE IF DictHas(ttwp, link) THEN link ELSE None

\* Line 423: the raw link first, then raw_link.capitalize().
ResolveLink(raw_link, ttwp, rdr) ==
    LET verbatim == LinkTarget(raw_link, ttwp, rdr)
    IN  IF verbatim # None THEN verbatim
        ELSE LinkTarget(capitalize(raw_link), ttwp, rdr)

\* inlinks[p.title] = count in place of += count.
GoodLinkAssigned(acc, p_title, target, count) ==
    [acc EXCEPT !.resolved_links = CounterAdd(@, target, count),
                !.ttwp.val[target].inlinks = (p_title :> count) @@ @,
                !.good = @ + 1]

\* Lines 429-431, 434-436 and 451: a link that resolved to target.
GoodLink(acc, p_title, target, count) ==
    [acc EXCEPT !.resolved_links = CounterAdd(@, target, count),
                !.ttwp.val[target].inlinks = CounterAdd(@, p_title, count),
                !.good = @ + 1]

\* The unresolved link is counted and kept among the page's links.
BadLinkKept(acc, raw_link, count) ==
    IF startswith(raw_link, FilePrefix) \/ startswith(raw_link, ImagePrefix)
    THEN [acc EXCEPT !.file = @ + count,
                     !.resolved_links = CounterAdd(@, raw_link, count)]
    ELSE [acc EXCEPT !.bad = @ + count,
                     !.resolved_links = CounterAdd(@, raw_link, count)]

\* Lines 439-449: a link that did not resolve is counted and dropped.
BadLink(acc, raw_link, count) ==
    IF startswith(raw_link, FilePrefix) \/ startswith(raw_link, ImagePrefix)
    THEN [acc EXCEPT !.file = @ + count]
    ELSE [acc EXCEPT !.bad = @ + count]

\* Lines 420-451: the loop over p.links.items().  The result does not depend
\* on the order the items are visited in (the counts are added up).
RECURSIVE RewriteLinks(_, _, _, _)
RewriteLinks(todo, p_title, acc, rdr) ==
    IF todo = {} \/ acc.assert_failed THEN acc
    ELSE LET raw_link == CHOOSE x \in todo : TRUE
             count == acc.ttwp.val[p_title].links[raw_link]
             target == ResolveLink(raw_link, acc.ttwp, rdr)
             next == IF target = None THEN BadLink(acc, raw_link, count)
                     ELSE IF ~DictHas(acc.ttwp, target)
                          THEN [acc EXCEPT !.assert_failed = TRUE]
                          ELSE GoodLink(acc, p_title, target, count)
         IN  RewriteLinks(todo \ {raw_link}, p_title, next, rdr)

\* Lines 418-454: one terminal page of the "Resolving deepest links" loop.
RewritePage(ttwp, rdr, p_title) ==
    LET acc == RewriteLinks(DOMAIN ttwp.val[p_title].links, p_title,
                            [ttwp |-> ttwp, resolved_links |-> EmptyCounter,
                             good |-> 0, bad |-> 0, file |-> 0,
                             assert_failed |-> FALSE], rdr)
    IN  [acc EXCEPT !.ttwp.val[p_title].links = acc.resolved_links]

(***************************************************************************)
(* resolve_parsed_pages as a function of its argument: the same loop       *)
(* bodies, run to the end.                                                 *)
(***************************************************************************)
RECURSIVE PartitionAll(_, _, _)
PartitionAll(pages, i, st) ==
    IF i > Len(pages) THEN st
    ELSE PartitionAll(pages, i + 1,
                      PartitionPage(st.ttwp, st.redirects, pages[i]))

RECURSIVE CreateAliases(_, _)
CreateAliases(i, st) ==
    IF i > Len(st.redirects.keys) THEN st
    ELSE LET r == ResolveRedirect(st.ttwp, st.redirects, st.redirects.keys[i],
                                  st.seen)
         IN  CreateAliases(i + 1, [ttwp |-> r.ttwp, redirects |-> r.redirects,
                                   seen |-> r.seen])

RECURSIVE ResolveAllLinks(_, _, _)
ResolveAllLinks(i, ttwp, rdr) ==
    IF i > Len(ttwp.keys) THEN [ttwp |-> ttwp, assert_failed |-> FALSE]
    ELSE LET r == RewritePage(ttwp, rdr, ttwp.keys[i])
         IN  IF r.assert_failed THEN [ttwp |-> ttwp, assert_failed |-> TRUE]
             ELSE ResolveAllLinks(i + 1, r.ttwp, rdr)

\* The set of the articles that resolve_parsed_pages(pages) yields.
resolve_parsed_pages(pages) ==
    LET parted == PartitionAll(pages, 1, [ttwp |-> EmptyDict,
                                          redirects |-> EmptyDict])
        chased == CreateAliases(1, [ttwp |-> parted.ttwp,
                                    redirects |-> parted.redirects,
                                    seen |-> {}])
        linked == ResolveAllLinks(1, chased.ttwp, chased.redirects)
    IN  IF linked.assert_failed THEN {}
        ELSE { linked.ttwp.val[k] : k \in DOMAIN linked.ttwp.val }

(***************************************************************************)
(* Part II: WikiXMLHandler (wikipedia_parser.py), the SAX content handler. *)
(*                                                                         *)
(* A string is a sequence of tokens; a token is one character, except the  *)
(* token "BIG", which stands for a run of BigRun characters of revision    *)
(* text.  The SAX parser is the environment: it turns a well-formed        *)
(* document into startElement, endElement and characters events.           *)
(***************************************************************************)
\* Line 135: the per-page cap on the revision text.
revision_text_limit == 100 * 1024 * 1024

\* The characters that one "BIG" token stands for.
BigRun == 60 * 1024 * 1024

TokenLen(c) == IF c = "BIG" THEN BigRun ELSE 1

\* len(s)
RECURSIVE StrLen(_)
StrLen(s) == IF s = <<>> THEN 0 ELSE TokenLen(Head(s)) + StrLen(Tail(s))

\* str.strip(): leading and trailing white space removed.
RECURSIVE lstrip(_)
lstrip(s) == IF s # <<>> /\ Head(s) = " " THEN lstrip(Tail(s)) ELSE s

RECURSIVE rstrip(_)
rstrip(s) ==
    IF s # <<>> /\ s[Len(s)] = " " THEN rstrip(SubSeq(s, 1, Len(s) - 1)) ELSE s

strip(s) == rstrip(lstrip(s))

(***************************************************************************)
(* Documents and their SAX events                                          *)
(***************************************************************************)
\* Most child elements of one page of a one-page document.
MaxParts == 3

\* Most pages of a document.
MaxDocPages == 2

StartEvent(name, attrs) ==
    [type |-> "start", name |-> name, attrs |-> attrs, data |-> <<>>]

EndEvent(name) == [type |-> "end", name |-> name, attrs |-> <<>>, data |-> <<>>]

CharsEvent(data) ==
    [type |-> "chars", name |-> "", attrs |-> <<>>, data |-> data]

Element(name, inner) == <<StartEvent(name, <<>>)>> \o inner \o <<EndEvent(name)>>

\* The child elements a page is made of.  "revision" is the layout of a
\* MediaWiki export: the revision has its own id and a contributor with an id.
PartNames ==
    { "title", "empty_title", "id", "redirect", "revision", "big_revision",
      "nested_revision", "page" }

PartEvents(part) ==
    CASE part = "title" -> Element("title", <<CharsEvent(<<"T">>)>>)
      [] part = "empty_title" -> Element("title", <<>>)
      [] part = "id" -> Element("id", <<CharsEvent(<<" ", "1">>)>>)
      [] part = "redirect" ->
            << StartEvent("redirect", << <<"title", <<"R">> >> >>),
               EndEvent("redirect") >>
      [] part = "revision" ->
            Element("revision",
                    Element("id", <<CharsEvent(<<"2">>)>>)
                      \o Element("contributor",
                                 Element("id", <<CharsEvent(<<"3">>)>>))
                      \o Element("text", <<CharsEvent(<<"x">>)>>))
      [] part = "big_revision" ->
            Element("revision",
                    Element("text", << CharsEvent(<<"BIG">>), CharsEvent(<<"BIG">>),
                                       CharsEvent(<<"x">>) >>))
      [] part = "nested_revision" ->
            Element("revision",
                    Element("revision", <<>>)
                      \o Element("text", <<CharsEvent(<<"y">>)>>))
      [] part = "page" -> Element("page", <<>>)

RECURSIVE PartsEvents(_)
PartsEvents(parts) ==
    IF parts = <<>> THEN <<>> ELSE PartEvents(Head(parts)) \o PartsEvents(Tail(parts))

RECURSIVE PagesEvents(_)
PagesEvents(pages) ==
    IF pages = <<>> THEN <<>>
    ELSE Element("page", PartsEvents(Head(pages))) \o PagesEvents(Tail(pages))

\* The events of a document: the root element around the pages.
DocumentEvents(doc) == Element("mediawiki", PagesEvents(doc))

PagesUpTo(n) == UNION { [1..k -> PartNames] : k \in 0..n }

\* One page of up to MaxParts parts, or up to MaxDocPages pages of fewer parts.
Documents ==
    { <<pg>> : pg \in PagesUpTo(MaxParts) }
      \cup UNION { [1..n -> PagesUpTo(MaxParts - 1)] : n \in 2..MaxDocPages }

\* The limit argument of the handler: None (no limit), or a number of pages.
Limits == {0, 1}

(***************************************************************************)
(* The handler's methods                                                   *)
(***************************************************************************)
UnparsedRawPage(id, title, redirect, text) ==
    [id |-> id, title |-> title, redirect |-> redirect, text |-> text]

\* Lines 127-152: __init__.  revision_text_buffer and revision_text_length
\* are first assigned by startElement.
WikiXMLHandler(limit) ==
    [ element_count |-> 0, page_count |-> 0, in_page |-> FALSE, limit |-> limit,
      in_title |-> FALSE, title_buffer |-> None, page_title |-> None,
      page_text |-> None, page_redirect |-> None,
      seen_page_revision |-> FALSE, in_revision |-> FALSE,
      in_revision_text |-> FALSE, in_id |-> FALSE, id_buffer |-> None,
      page_id |-> None, revision_text_buffer |-> None,
      revision_text_length |-> 0 ]

Return(h, q) == [h |-> h, queue |-> q, exc |-> "none"]

Raise(h, q, exc) == [h |-> h, queue |-> q, exc |-> exc]

\* attrs.getValue("title"): the value of the attribute, None when there is none.
AttrValue(attrs, name) ==
    IF \E i \in DOMAIN attrs : attrs[i][1] = name
    THEN attrs[CHOOSE i \in DOMAIN attrs : attrs[i][1] = name][2]
    ELSE None

\* Lines 200-202: an id element opens the id buffer, wherever in the page.
StartId(h) == [h EXCEPT !.in_id = TRUE, !.id_buffer = <<>>]

\* Lines 154-202.
startElement(h0, q, name, attrs) ==
    LET h == [h0 EXCEPT !.element_count = @ + 1]
        hp == IF name = "page" THEN [h EXCEPT !.in_page = TRUE] ELSE h
    IN  IF h.in_title \/ h.in_revision_text \/ h.in_id
        THEN Raise(h, q, "RuntimeError")
        ELSE IF name = "page" /\ h.in_page THEN Raise(h, q, "RuntimeError")
        ELSE IF ~hp.in_page THEN Return(hp, q)
        ELSE IF name = "title"
             THEN IF Truthy(hp.page_title) THEN Raise(hp, q, "RuntimeError")
                  ELSE Return([hp EXCEPT !.in_title = TRUE, !.title_buffer = <<>>], q)
        ELSE IF name = "redirect"
             THEN IF Truthy(hp.page_redirect) THEN Raise(hp, q, "RuntimeError")
                  ELSE IF Len(attrs) # 1 THEN Raise(hp, q, "RuntimeError")
                  ELSE IF AttrValue(attrs, "title") = None
                       THEN Raise(hp, q, "KeyError")
                       ELSE Return([hp EXCEPT !.page_redirect =
                                                 AttrValue(attrs, "title")], q)
        ELSE IF name = "revision"
             THEN IF hp.seen_page_revision THEN Raise(hp, q, "RuntimeError")
                  ELSE Return([hp EXCEPT !.in_revision = TRUE], q)
        ELSE IF hp.in_revision /\ name = "text"
             THEN Return([hp EXCEPT !.in_revision_text = TRUE,
                                    !.revision_text_buffer = <<>>,
                                    !.revision_text_length = 0], q)
        ELSE IF name = "id" THEN Return(StartId(hp), q)
        ELSE Return(hp, q)

\* Lines 249-264: the page goes to the queue; with a limit, the page that
\* reaches it raises StopIteration.
handle_page(h0, q) ==
    LET h == [h0 EXCEPT !.page_count = @ + 1]
        q1 == Append(q, UnparsedRawPage(h.page_id, h.page_title,
                                        h.page_redirect, h.page_text))
    IN  IF h.limit # 0 /\ h.page_count >= h.limit
        THEN Raise(h, q1, "StopIteration")
        ELSE Return(h, q1)

\* Lines 208-212: what the end of a page resets.
EndPageReset(h) ==
    [h EXCEPT !.in_page = FALSE, !.page_title = None, !.page_text = None,
              !.seen_page_revision = FALSE, !.page_redirect = None]

\* Lines 204-232.
endElement(h0, q, name) ==
    LET paged == IF name = "page" THEN handle_page(h0, q) ELSE Return(h0, q)
        h == IF name = "page" THEN EndPageReset(paged.h) ELSE h0
    IN  IF paged.exc # "none" THEN paged
        ELSE IF ~h.in_page THEN Return(h, paged.queue)
        ELSE IF name = "title"
             THEN Return([h EXCEPT !.in_title = FALSE,
                                   !.page_title = h.title_buffer,
                                   !.title_buffer = None], paged.queue)
        ELSE IF name = "redirect" THEN Return(h, paged.queue)
        ELSE IF name = "revision"
             THEN Return([h EXCEPT !.in_revision = FALSE,
                                   !.seen_page_revision = TRUE], paged.queue)
        ELSE IF h.in_revision /\ name = "text"
             THEN Return([h EXCEPT !.in_revision_text = FALSE,
                                   !.page_text = h.revision_text_buffer,
                                   !.revision_text_buffer = None,
                                   !.revision_text_length = 0], paged.queue)
        ELSE IF name = "id"
             THEN Return([h EXCEPT !.in_id = FALSE,
                                   !.page_id = strip(h.id_buffer),
                                   !.id_buffer = None], paged.queue)
        ELSE Return(h, paged.queue)

\* Lines 238-242: over the limit, the warning reads self.title_buffer, which
\* is None outside a title element, and None has no getvalue.
OverLimit(h, q) ==
    IF h.title_buffer = None THEN Raise(h, q, "AttributeError") ELSE Return(h, q)

\* Lines 234-247.
characters(h, q, data) ==
    IF h.in_title THEN Return([h EXCEPT !.title_buffer = @ \o data], q)
    ELSE IF h.in_revision_text
         THEN IF h.revision_text_length > revision_text_limit
              THEN OverLimit(h, q)
              ELSE Return([h EXCEPT !.revision_text_length = @ + StrLen(data),
                                    !.revision_text_buffer = @ \o data], q)
    ELSE IF h.in_id THEN Return([h EXCEPT !.id_buffer = @ \o data], q)
    ELSE Return(h, q)

(***************************************************************************)
(* Part III: WikipediaDumpParser.parsed_wikipedia_pages                    *)
(* (wikipedia_parser.py): the parent process runs the SAX parse, the       *)
(* workers parse the wikitext.  Here a page of the dump is its position in *)
(* the dump and what wtp.parse does with its text:                         *)
(*   "ok"       wtp.parse returns within the 60 s,                         *)
(*   "timeout"  the alarm fires and handle_timeout raises TimeoutError,    *)
(*   "raise"    wtp.parse raises another exception (a page without a text  *)
(*              element has text None),                                    *)
(*   "corrupt"  the handler raises RuntimeError inside the page (a second  *)
(*              title, a nested page): the page is not put on the queue.   *)
(* A multiprocessing.Queue hands an item that was put to a feeder thread   *)
(* of the putting process, which writes it to the pipe; get() reads the    *)
(* pipe.  A process that exits joins its feeder thread first.              *)
(***************************************************************************)
\* The concurrency argument: the number of worker processes.
Concurrency == 2

\* Longest generic dump, in pages.
MaxStream == 3

Workers == 1..Concurrency

\* Line 314: multiprocessing.Queue(concurrency * 10).
ReaderQueueSize == Concurrency * 10

PageKinds == {"ok", "timeout", "raise", "corrupt"}

DumpPage(i, kind) == [id |-> i, kind |-> kind]

\* The poison value: None on the reader queue.
Poison == [id |-> 0, kind |-> "None"]

GenericStreams ==
    UNION { { [i \in 1..n |-> DumpPage(i, ks[i])] : ks \in [1..n -> PageKinds] }
            : n \in 1..MaxStream }

\* A dump that does not fit the reader queue, whose first pages make
\* wtp.parse raise in every worker.
LongStream ==
    [i \in 1..(ReaderQueueSize + Concurrency + 1) |->
        DumpPage(i, IF i <= Concurrency THEN "raise" ELSE "ok")]

Streams == GenericStreams \cup {LongStream}

\* The limit argument: None (0) or a number of pages; the larger one is the
\* length of the long stream.
PoolLimits == {0, 2, ReaderQueueSize + Concurrency + 1}

(***************************************************************************)
(* Part IV: augment_with_pagerank (pipelines.py) over pagerank and         *)
(* pagerank_with_percentiles (pagerank.py).                                *)
(*                                                                         *)
(* The canonical-page file is the sequence of the pages that               *)
(* store_wikipedia_pages wrote: the resolver's articles sorted by title,   *)
(* so the titles differ and every link is a title of the file.  An edge    *)
(* weight count / norm is the pair <<count, norm>>; a PageRank is an       *)
(* integer number of millionths; a percentile rank / N is the pair         *)
(* <<2 * rank, 2 * N>> (an average rank may be a half).                    *)
(***************************************************************************)
\* Most pages of a canonical-page file.
MaxRankPages == 3

\* Largest count of one link.
MaxCount == 2

\* Most links of one page of a canonical-page file.
MaxLinks == 2

\* Iterations of the PageRank fixed point.
MaxIterations == 3

\* The titles of the file, in sorted order.
RankTitles == << tA, tB, tNY, tZzz >>

FileTitles(n) == { RankTitles[i] : i \in 1..n }

\* The link Counters a page of a file of n pages may have.
LinkMaps(n) ==
    UNION { [S -> 1..MaxCount] :
              S \in { T \in SUBSET FileTitles(n) : Cardinality(T) <= MaxLinks } }

CanonicalFile(n, lk) ==
    [i \in 1..n |->
        WikipediaCanonicalPage(i, RankTitles[i], {}, lk[i], EmptyCounter,
                               NoneFloat, NoneFloat)]

\* A generator that a first caller has used up: every later call finds it
\* empty.
loaderExhausted(in_memory, file, cached, call) ==
    IF in_memory THEN (IF call = 1 THEN cached ELSE <<>>) ELSE file

\* Lines 101-110 of pipelines.py: what one call of loader() returns.  In memory
\* it is the list c itself (the same page objects at every call); streaming it
\* is a fresh read of the file.
loader(in_memory, file, cached, call) == IF in_memory THEN cached ELSE file

RECURSIVE SumCounts(_, _)
SumCounts(links, keys) ==
    IF keys = {} THEN 0
    ELSE LET k == CHOOSE x \in keys : TRUE
         IN  links[k] + SumCounts(links, keys \ {k})

\* The edges of one page with the number of its links as the norm.
PageEdgesByLinkCount(page, title_map) ==
    LET norm == Cardinality(DOMAIN page.links)
        known == { link \in DOMAIN page.links : link \in DOMAIN title_map }
    IN  [key_error |-> known # DOMAIN page.links,
         edges |-> { [source |-> title_map[page.title], target |-> title_map[link],
                      weight |-> <<page.links[link], norm>>] : link \in known }]

\* Lines 24-29 of pagerank.py: the edges of one page; a link that is no title
\* of the map raises KeyError.
PageEdges(page, title_map) ==
    LET norm == SumCounts(page.links, DOMAIN page.links)
        known == { link \in DOMAIN page.links : link \in DOMAIN title_map }
    IN  [key_error |-> known # DOMAIN page.links,
         edges |-> { [source |-> title_map[page.title], target |-> title_map[link],
                      weight |-> <<page.links[link], norm>>] : link \in known }]

RECURSIVE SumInto(_, _, _)
SumInto(v, es, pr) ==
    IF es = {} THEN 0
    ELSE LET e == CHOOSE x \in es : TRUE
         IN  (IF e.target = v
              THEN (85 * pr[e.source] * e.weight[1]) \div (100 * e.weight[2])
              ELSE 0) + SumInto(v, es \ {e}, pr)

\* Line 34 of pagerank.py: graph_tool.centrality.pagerank(g, weight): the
\* damped random walk, PR(v) = (1 - d) / N + d * sum of PR(u) * w(u, v) over
\* the edges into v, with d = 0.85, iterated from the uniform vector.
RECURSIVE Iterate(_, _, _, _)
Iterate(n, es, pr, k) ==
    IF k = 0 THEN pr
    ELSE Iterate(n, es,
                 [v \in 0..(n - 1) |->
                     (15 * 1000000) \div (100 * n) + SumInto(v, es, pr)],
                 k - 1)

graph_pagerank(n, es) ==
    IF n = 0 THEN <<>>
    ELSE Iterate(n, es, [v \in 0..(n - 1) |-> 1000000 \div n], MaxIterations)

\* Ranks by position: equal values get the ranks of their positions.
rank_percentilesOrdinal(prs) ==
    IF Len(prs) = 0 THEN << <<1, 1>> >>
    ELSE [i \in 1..Len(prs) |->
            << 2 * (Cardinality({ j \in 1..Len(prs) : prs[j] < prs[i] })
                    + Cardinality({ j \in 1..i : prs[j] = prs[i] })),
               2 * Len(prs) >>]

\* Lines 44-48 of pagerank.py: scipy.stats.rankdata(pageranks) / len(pageranks)
\* with average ranks: twice the average rank of x is the number of smaller
\* values twice, plus the number of equal values, plus one.
rank_percentiles(prs) ==
    IF Len(prs) = 0 THEN << <<1, 1>> >>
    ELSE [i \in 1..Len(prs) |->
            << 2 * Cardinality({ j \in 1..Len(prs) : prs[j] < prs[i] })
                 + Cardinality({ j \in 1..Len(prs) : prs[j] = prs[i] }) + 1,
               2 * Len(prs) >>]

\* The file of three articles that each link once to the next, in a ring.
RingFile ==
    CanonicalFile(3, << (tB :> 1), (tNY :> 1), (tA :> 1) >>)

Min2(a, b) == IF a < b THEN a ELSE b

(***************************************************************************)
(* Part V: the per-wiki stores (wikilanguage.py, pipelines.py).            *)
(*                                                                         *)
(* A shelf is a function from its keys to its values.  A Python object is  *)
(* a record of its attributes, so reading an attribute that the object     *)
(* does not have is told apart (AttributeError) from reading one it has.   *)
(***************************************************************************)
\* Most articles of one article store.
MaxArticles == 3

\* The titles an article store may hold, in the order the store iterates.
StoreTitles == << tA, tB, tNY >>

\* The redirect sources that may be an alias of an article.
StoreAliases == {tC, tD}

\* hasattr(obj, name)
hasattr(obj, name) == name \in DOMAIN obj

\* One item of shelf.items(): the tuple (key, value).  A tuple has neither a
\* name nor a title attribute.
ItemTuple(key, value) == [item0 |-> key, item1 |-> value]

EmptyShelf == << >>

\* shelf[key] = value
ShelfSet(shelf, key, value) ==
    [k \in (DOMAIN shelf) \cup {key} |-> IF k = key THEN value ELSE shelf[k]]

\* shelf.get(key): None for a key the shelf does not hold.
ShelfGet(shelf, key) == IF key \in DOMAIN shelf THEN shelf[key] ELSE None

\* The article stores of at most MaxArticles articles: every alias belongs to
\* at most one article (owner[alias] is its position in StoreTitles, 0 for
\* none), as the resolver leaves them.
StoreArticle(i, owner) ==
    WikipediaCanonicalPage(i, StoreTitles[i],
                           { a \in StoreAliases : owner[a] = i },
                           EmptyCounter, EmptyCounter, 250000 * i, <<2 * i, 6>>)

ArticleStore(present, owner) ==
    [t \in { StoreTitles[i] : i \in present } |->
        StoreArticle(CHOOSE i \in present : StoreTitles[i] = t, owner)]

\* shelf.items() and shelf.values(), in the order of StoreTitles.
RECURSIVE ShelfItemsFrom(_, _)
ShelfItemsFrom(shelf, i) ==
    IF i > Len(StoreTitles) THEN <<>>
    ELSE (IF StoreTitles[i] \in DOMAIN shelf
          THEN << ItemTuple(StoreTitles[i], shelf[StoreTitles[i]]) >>
          ELSE <<>>) \o ShelfItemsFrom(shelf, i + 1)

ShelfItems(shelf) == ShelfItemsFrom(shelf, 1)

ShelfValues(shelf) ==
    [i \in 1..Len(ShelfItems(shelf)) |-> ShelfItems(shelf)[i].item1]

\* What write_aliases_to_shelf is called with: the driver passes
\* shelf.items() (wikilanguage.py line 93); its annotation asks for the
\* articles themselves.
AliasCalls == {"items", "articles"}

AliasArgument(call, shelf) ==
    IF call = "items" THEN ShelfItems(shelf) ELSE ShelfValues(shelf)

\* Lines 139-141 of pipelines.py: the body of the loop for one element of the
\* argument.  Reading article.name, article.aliases or article.title of an
\* object without that attribute raises AttributeError.
WriteArticleAliases(article, shelf) ==
    IF ~hasattr(article, "name")
    THEN [error |-> "AttributeError", shelf |-> shelf]
    ELSE LET named == ShelfSet(shelf, article.name, article.name)
         IN  IF ~hasattr(article, "aliases")
             THEN [error |-> "AttributeError", shelf |-> named]
             ELSE IF article.aliases # {} /\ ~hasattr(article, "title")
             THEN [error |-> "AttributeError", shelf |-> named]
             ELSE [error |-> "none",
                   shelf |-> [k \in (DOMAIN named) \cup article.aliases |->
                                 IF k \in article.aliases THEN article.title
                                 ELSE named[k]]]

(***************************************************************************)
(* Part VI: the Wikidata side (wikidata_parser.py).                        *)
(*                                                                         *)
(* A JSON object is a record of its keys, so a missing key is told apart   *)
(* from a present one; the key entity-type is written entity_type.  A dump *)
(* line that holds a JSON object is [json |-> object], any other line is   *)
(* [text |-> string].                                                      *)
(***************************************************************************)
\* Most concepts of an inheritance graph.
MaxConcepts == 3

Q5 == "Q5"
Q215627 == "Q215627"
Q3305213 == "Q3305213"

Concepts == << Q5, Q215627, Q3305213, "Q1" >>

ConceptIds == { Concepts[i] : i \in 1..MaxConcepts }

\* The edges of the inheritance graph: <<superclass, subclass>>
\* (line 329: the edge runs from the superclass to the line's own id).
InheritanceGraphs == SUBSET (ConceptIds \X ConceptIds)

\* Q5 <- Q215627 <- Q3305213
ChainGraph == { <<Q5, Q215627>>, <<Q215627, Q3305213>> }

\* A subclass-of cycle through the three concepts.
CycleGraph == ChainGraph \cup { <<Q3305213, Q5>> }

\* parents[f].add(t): the map from a concept to its subclasses.
parent_finderReversed(graph_edges) ==
    [f \in { e[1] : e \in graph_edges } |->
        { e[2] : e \in { x \in graph_edges : x[1] = f } }]

\* Lines 62-70: parents[t].add(f) for every edge (f, t) of the graph.
parent_finder(graph_edges) ==
    [t \in { e[2] : e \in graph_edges } |->
        { e[1] : e \in { x \in graph_edges : x[2] = t } }]

\* self.parents[the_id] of a defaultdict(set)
ParentsOf(parents, the_id) ==
    IF the_id \in DOMAIN parents THEN parents[the_id] ELSE {}

RECURSIVE Inner(_, _, _), InnerEach(_, _, _)
\* Lines 44-50: _inner(the_id); the_set is the set it adds to.
Inner(parents, the_id, the_set) ==
    IF the_id \in the_set THEN the_set
    ELSE InnerEach(parents, ParentsOf(parents, the_id), the_set \cup {the_id})

\* Lines 49-50: the for loop over the parents of a concept.
InnerEach(parents, todo, the_set) ==
    IF todo = {} THEN the_set
    ELSE LET p == CHOOSE x \in todo : TRUE
         IN  InnerEach(parents, todo \ {p}, Inner(parents, p, the_set))

\* all_parents as it would be if it always started from a fresh set and
\* left the set it is given alone.
all_parentsFresh(parents, the_id, add_to_set) == Inner(parents, the_id, {})

\* Lines 41-53: all_parents(the_id, add_to_set); add_to_set = {} for the
\* default None (a fresh set).
all_parents(parents, the_id, add_to_set) == Inner(parents, the_id, add_to_set)

\* parent_finder.all_parents(c, S) for every c of a collection, into one set.
RECURSIVE AllParentsInto(_, _, _)
AllParentsInto(parents, todo, the_set) ==
    IF todo = {} THEN the_set
    ELSE LET x == CHOOSE y \in todo : TRUE
         IN  AllParentsInto(parents, todo \ {x}, all_parents(parents, x, the_set))

\* None where the other values are objects (records).
PyNone == [none |-> TRUE]

IsNone(obj) == hasattr(obj, "none")

SUBCLASS_OF == "P279"
INSTANCE_OF == "P31"
COORDINATE_LOCATION == "P625"
COUNTRY_OF_ORIGIN == "P495"
PUBLICATION_DATE == "P577"

\* What a called function did: it returned a value or raised an exception.
Returned(value) == [error |-> "none", value |-> value]

Raised(exc) == [error |-> exc, value |-> PyNone]

\* Lines 135-153: extract_snak_value(item, expected_value_type).
extract_snak_value(item, expected_value_type) ==
    IF ~hasattr(item, "mainsnak") THEN Raised("RuntimeError")
    ELSE LET mainsnak == item.mainsnak
         IN  IF ~hasattr(mainsnak, "snaktype") THEN Raised("RuntimeError")
             ELSE IF mainsnak.snaktype # "value" THEN Returned(PyNone)
             ELSE IF ~hasattr(mainsnak, "datavalue") THEN Raised("RuntimeError")
             ELSE LET datavalue == mainsnak.datavalue
                  IN  IF ~hasattr(datavalue, "type")
                           \/ datavalue.type # expected_value_type
                      THEN Raised("RuntimeError")
                      ELSE Returned(datavalue.value)

\* Lines 164 and 180: the value names an item.
IsItemValue(value) ==
    /\ ~IsNone(value)
    /\ hasattr(value, "entity_type")
    /\ value.entity_type = "item"
    /\ hasattr(value, "id")

\* Lines 162-165: the loop of parse_instances from the i-th instance on.
RECURSIVE InstancesFrom(_, _, _)
InstancesFrom(instances, i, ret) ==
    IF i > Len(instances) THEN Returned(ret)
    ELSE LET r == extract_snak_value(instances[i], "wikibase-entityid")
         IN  IF r.error # "none" THEN Raised(r.error)
             ELSE InstancesFrom(instances, i + 1,
                                IF IsItemValue(r.value) THEN ret \cup {r.value.id}
                                ELSE ret)

\* Lines 156-167.
parse_instances(claims) ==
    IF INSTANCE_OF \notin DOMAIN claims THEN Returned({})
    ELSE InstancesFrom(claims[INSTANCE_OF], 1, {})

\* Lines 170-183; a missing country is the string "None".
parse_country_of_origin(claims) ==
    IF COUNTRY_OF_ORIGIN \notin DOMAIN claims THEN Returned("None")
    ELSE IF Len(claims[COUNTRY_OF_ORIGIN]) = 0 THEN Returned("None")
    ELSE LET r == extract_snak_value(claims[COUNTRY_OF_ORIGIN][1], "wikibase-entityid")
         IN  IF r.error # "none" THEN Raised(r.error)
             ELSE IF IsItemValue(r.value) THEN Returned(r.value.id)
             ELSE Returned("None")

\* Lines 186-195; coordinates[0] of an empty list raises IndexError.
parse_globe_coordinate(claims) ==
    IF COORDINATE_LOCATION \notin DOMAIN claims THEN Returned(PyNone)
    ELSE IF Len(claims[COORDINATE_LOCATION]) = 0 THEN Raised("IndexError")
    ELSE LET r == extract_snak_value(claims[COORDINATE_LOCATION][1], "globecoordinate")
         IN  IF r.error # "none" THEN Raised(r.error)
             ELSE Returned(r.value)

GregorianCalendar == "http://www.wikidata.org/entity/Q1985727"

\* Lines 198-243: parse_time(value).  The time string of a value is its sign
\* and the seconds since the epoch that strptime reads from it; None is
\* NoneFloat.
parse_time(value) ==
    IF ~hasattr(value, "time") THEN NoneFloat
    ELSE IF ~hasattr(value, "precision") THEN NoneFloat
    ELSE IF ~hasattr(value, "calendarmodel") THEN NoneFloat
    ELSE IF value.calendarmodel # GregorianCalendar THEN NoneFloat
    ELSE IF value.time.sign # "+" THEN NoneFloat
    ELSE IF value.precision \notin {7, 8, 9, 10, 11, 12, 14} THEN NoneFloat
    ELSE value.time.seconds

\* Lines 252-260: the loop of parse_min_publication_date.
RECURSIVE MinDateFrom(_, _, _)
MinDateFrom(dates, i, min_date) ==
    IF i > Len(dates) THEN Returned(min_date)
    ELSE LET r == extract_snak_value(dates[i], "time")
         IN  IF r.error # "none" THEN Raised(r.error)
             ELSE IF IsNone(r.value) THEN MinDateFrom(dates, i + 1, min_date)
             ELSE LET time == parse_time(r.value)
                  IN  MinDateFrom(dates, i + 1,
                        IF time # NoneFloat /\ (min_date = NoneFloat \/ time < min_date)
                        THEN time ELSE min_date)

\* Lines 246-262.
parse_min_publication_date(claims) ==
    IF PUBLICATION_DATE \notin DOMAIN claims THEN Returned(NoneFloat)
    ELSE MinDateFrom(claims[PUBLICATION_DATE], 1, NoneFloat)

\* whitelisted_wikis: None, or a set of wiki names.
NoWhitelist == [none |-> TRUE, wikis |-> {}]

Whitelist(wikis) == [none |-> FALSE, wikis |-> wikis]

\* Lines 366-373: the titles of the whitelisted sitelinks.
TitlesByWiki(sitelinks, whitelisted_wikis) ==
    [wiki \in { w \in DOMAIN sitelinks :
                  whitelisted_wikis.none \/ w \in whitelisted_wikis.wikis } |->
        sitelinks[wiki].title]

\* Lines 15-26: the namedtuple WikiDataEntry.
WikiDataEntry(id, sample_label, sample_coord, publication_date, country_of_origin, titles_by_wiki, direct_instance_of) ==
    [id |-> id, sample_label |-> sample_label, sample_coord |-> sample_coord,
     publication_date |-> publication_date,
     country_of_origin |-> country_of_origin,
     titles_by_wiki |-> titles_by_wiki,
     direct_instance_of |-> direct_instance_of]

\* Line 362: the English label, else the first one, else None.
SampleLabel(labels) ==
    IF DOMAIN labels = {} THEN "None"
    ELSE IF "en" \in DOMAIN labels THEN labels["en"].value
    ELSE labels[CHOOSE l \in DOMAIN labels : TRUE].value

\* Lines 336-388: parse_dump_line(line, whitelisted_wikis): None, an entry,
\* or an exception.
parse_dump_line(line, whitelisted_wikis) ==
    IF ~hasattr(line, "json") THEN Returned(PyNone)
    ELSE LET loaded == line.json
         IN  IF loaded.type = "property" THEN Returned(PyNone)
             ELSE IF loaded.type # "item" THEN Raised("RuntimeError")
             ELSE IF ~hasattr(loaded, "sitelinks") THEN Raised("RuntimeError")
             ELSE IF ~hasattr(loaded, "labels") THEN Raised("RuntimeError")
             ELSE LET titles_by_wiki == TitlesByWiki(loaded.sitelinks, whitelisted_wikis)
                      claims == loaded.claims
                      coord == parse_globe_coordinate(claims)
                      instances == parse_instances(claims)
                      country == parse_country_of_origin(claims)
                      date == parse_min_publication_date(claims)
                  IN  IF DOMAIN titles_by_wiki = {} THEN Returned(PyNone)
                      ELSE IF coord.error # "none" THEN Raised(coord.error)
                      ELSE IF instances.error # "none" THEN Raised(instances.error)
                      ELSE IF country.error # "none" THEN Raised(country.error)
                      ELSE IF date.error # "none" THEN Raised(date.error)
                      ELSE Returned(
                             WikiDataEntry(loaded.id, SampleLabel(loaded.labels),
                                           coord.value, date.value, country.value,
                                           titles_by_wiki, instances.value))

(***************************************************************************)
(* Part VII: the joiner (pipelines.py): write_csv over the Wikidata dump.  *)
(***************************************************************************)
\* Most entity lines of a dump.
MaxEntities == 2

\* The limit argument of write_csv where it is not None.
RowLimit == 1

TargetWikis == {"enwiki", "jawiki"}

\* ArticleStore[enwiki] holds A and NY (alias C); ArticleStore[jawiki] holds B.
EnShelf == ArticleStore({1, 3}, (tC :> 3) @@ (tD :> 0))

JaShelf == ArticleStore({2}, (tC :> 0) @@ (tD :> 0))

wiki_to_article_shelf == ("enwiki" :> EnShelf) @@ ("jawiki" :> JaShelf)

\* The alias stores: every title to itself, every alias to its article's
\* title; D is a stale alias, of a title that the article store lacks.
wiki_to_alias_shelf ==
    ("enwiki" :> ((tA :> tA) @@ (tNY :> tNY) @@ (tC :> tNY) @@ (tD :> tB)))
      @@ ("jawiki" :> (tB :> tB))

\* The ParentFinder of the chain Q5 <- Q215627 <- Q3305213.
ChainParents == parent_finder(ChainGraph)

\* Statements (snaks) as the dump has them.
ItemSnak(q) ==
    [mainsnak |->
        [snaktype |-> "value",
         datavalue |-> [type |-> "wikibase-entityid",
                        value |-> [entity_type |-> "item", id |-> q]]]]

NoValueSnak == [mainsnak |-> [snaktype |-> "novalue"]]

MissingMainsnak == [rank |-> "normal"]

MissingSnaktype ==
    [mainsnak |-> [datavalue |-> [type |-> "wikibase-entityid",
                                  value |-> [entity_type |-> "item", id |-> Q5]]]]

MissingDatavalue == [mainsnak |-> [snaktype |-> "value"]]

WrongType ==
    [mainsnak |-> [snaktype |-> "value",
                   datavalue |-> [type |-> "string", value |-> [string |-> "x"]]]]

DateSnak(seconds) ==
    [mainsnak |->
        [snaktype |-> "value",
         datavalue |-> [type |-> "time",
                        value |-> [time |-> [sign |-> "+", seconds |-> seconds],
                                   precision |-> 11,
                                   calendarmodel |-> GregorianCalendar]]]]

MalformedSnaks == {MissingMainsnak, MissingSnaktype, MissingDatavalue, WrongType}

\* The sitelinks of an entity.
Sitelink(wiki, title) == (wiki :> [title |-> title])

SitelinkShapes ==
    { << >>,
      Sitelink("enwiki", tA),
      Sitelink("enwiki", tC),
      Sitelink("enwiki", tD),
      Sitelink("enwiki", tZzz),
      Sitelink("jawiki", tB),
      Sitelink("enwiki", tC) @@ Sitelink("jawiki", tZzz),
      Sitelink("dewiki", tA) }

\* The claims of an entity.
ClaimShapes ==
    { << >>,
      (INSTANCE_OF :> << ItemSnak(Q3305213) >>),
      (INSTANCE_OF :> << NoValueSnak >>),
      (INSTANCE_OF :> << MissingSnaktype >>),
      (INSTANCE_OF :> << ItemSnak(Q5), MissingDatavalue >>),
      (INSTANCE_OF :> << WrongType >>),
      (INSTANCE_OF :> << MissingMainsnak >>),
      (INSTANCE_OF :> << ItemSnak(Q215627) >>) @@ (SUBCLASS_OF :> << ItemSnak(Q5) >>),
      (COORDINATE_LOCATION :> << WrongType >>),
      (PUBLICATION_DATE :> << DateSnak(7), DateSnak(3) >>)
         @@ (COUNTRY_OF_ORIGIN :> << ItemSnak(Q5) >>) }

EntityIds == << "Q101", "Q102", "Q103" >>

ItemLine(id, sitelinks, claims) ==
    [json |-> [type |-> "item", id |-> id, labels |-> ("en" :> [value |-> "label"]),
               sitelinks |-> sitelinks, claims |-> claims]]

PropertyLine == [json |-> [type |-> "property", id |-> "P31"]]

TextLine(text) == [text |-> text]

\* What a line after the opening bracket may be, as the k-th such line.
LineShapes(k) ==
    { ItemLine(EntityIds[k], s, cl) : s \in SitelinkShapes, cl \in ClaimShapes }
      \cup {PropertyLine}

\* A dump: the opening bracket, n lines, the closing bracket.
WikidataDump(n, body) == << TextLine("[") >> \o [k \in 1..n |-> body[k]] \o << TextLine("]") >>

\* Lines 73-86: what buffered_lines_with_progress yields for a file: the
\* first readline is not yielded; every later line is, and so is the empty
\* string that readline returns at the end of the file.
buffered_lines_with_progress(file) ==
    IF Len(file) = 0 THEN << >> ELSE Tail(file) \o << TextLine("") >>

\* itertools.islice(lines, limit); NoneFloat stands for limit = None.
islice(lines, n) ==
    IF n = NoneFloat \/ n >= Len(lines) THEN lines ELSE SubSeq(lines, 1, n)

\* shelf.get(title) of an article shelf.
ArticleGet(shelf, title) == IF title \in DOMAIN shelf THEN shelf[title] ELSE PyNone

\* entry.titles_by_wiki.get(wiki)
TitleGet(titles_by_wiki, wiki) ==
    IF wiki \in DOMAIN titles_by_wiki THEN titles_by_wiki[wiki] ELSE None

\* Lines 353-369: the two cells of one wiki.
WikiCells(entry, wiki, article_shelves, alias_shelves) ==
    LET title == TitleGet(entry.titles_by_wiki, wiki)
        shelf == article_shelves[wiki]
        direct == ArticleGet(shelf, title)
        alias == IF IsNone(direct) THEN ShelfGet(alias_shelves[wiki], title) ELSE None
        article == IF IsNone(direct) /\ Truthy(alias) THEN ArticleGet(shelf, alias)
                   ELSE direct
    IN  IF ~Truthy(title) THEN [title |-> None, pagerank |-> NoneFloat]
        ELSE IF ~IsNone(article)
        THEN [title |-> article.title, pagerank |-> article.pagerank]
        ELSE [title |-> title, pagerank |-> NoneFloat]

\* Line 357: wiki_to_alias_shelf[wiki] of a wiki without alias shelf.
AliasShelfMissing(entry, wiki, article_shelves, alias_shelves) ==
    /\ Truthy(TitleGet(entry.titles_by_wiki, wiki))
    /\ IsNone(ArticleGet(article_shelves[wiki], TitleGet(entry.titles_by_wiki, wiki)))
    /\ wiki \notin DOMAIN alias_shelves

\* Lines 333-384: _row_dict_from_line: None, a row, or an exception.
row_dict_from_line(line, article_shelves, alias_shelves, parents, whitelisted_wikis) ==
    LET parsed == parse_dump_line(line, whitelisted_wikis)
        entry == parsed.value
    IN  IF parsed.error # "none" THEN Raised(parsed.error)
        ELSE IF IsNone(entry) THEN Returned(PyNone)
        ELSE IF \E wiki \in DOMAIN article_shelves :
                    AliasShelfMissing(entry, wiki, article_shelves, alias_shelves)
        THEN Raised("KeyError")
        ELSE IF ~hasattr(entry, "direct_subclass_of") THEN Raised("AttributeError")
        ELSE Returned(
               [concept_id |-> entry.id,
                sample_label |-> entry.sample_label,
                sample_coord |-> entry.sample_coord,
                country_of_origin |-> entry.country_of_origin,
                publication_date |-> entry.publication_date,
                cells |-> [wiki \in DOMAIN article_shelves |->
                             WikiCells(entry, wiki, article_shelves, alias_shelves)],
                direct_instance_of |-> entry.direct_instance_of,
                recursive_instance_of |->
                    AllParentsInto(parents, entry.direct_instance_of, {}),
                direct_subclass_of |-> entry.direct_subclass_of,
                recursive_subclass_of |->
                    AllParentsInto(parents, entry.direct_subclass_of, {})])

\* Lines 397-402: the wikis of write_csv and its check of the alias shelves.
CsvWikis(article_shelves, whitelisted_wikis) ==
    IF whitelisted_wikis.none \/ whitelisted_wikis.wikis = {}
    THEN DOMAIN article_shelves
    ELSE (DOMAIN article_shelves) \cap whitelisted_wikis.wikis

(***************************************************************************)
(* Part VIII: the full single-wiki variant (pipelines.py):                 *)
(* write_full_wiki_csv over the Wikidata dump, in two passes.              *)
(***************************************************************************)
wiki_name == "enwiki"

\* A Counter as list(counter.items()): its (key, count) pairs.
Items(counter) == { << k, counter[k] >> : k \in DOMAIN counter }

\* The article shelf of the wiki: A, B and NY (alias C) with links among them.
FullArticle(id, title, aliases, links, inlinks) ==
    WikipediaCanonicalPage(id, title, aliases, links, inlinks, 250000 * id,
                           <<2 * id, 6>>)

FullShelf ==
    (tA :> FullArticle(1, tA, {}, (tB :> 2) @@ (tNY :> 1), (tNY :> 1)))
      @@ (tB :> FullArticle(2, tB, {}, EmptyCounter, (tA :> 2)))
      @@ (tNY :> FullArticle(3, tNY, {tC}, (tA :> 1), (tA :> 1)))

\* Lines 182-188: build_alias_map(article_shelf): every alias to the key of
\* its article.
build_alias_map(shelf) ==
    [alias \in UNION { shelf[t].aliases : t \in DOMAIN shelf } |->
        CHOOSE t \in DOMAIN shelf : alias \in shelf[t].aliases]

FullSitelinkShapes ==
    { << >>,
      Sitelink("enwiki", tA),
      Sitelink("enwiki", tB),
      Sitelink("enwiki", tNY),
      Sitelink("enwiki", tC),
      Sitelink("enwiki", tZzz),
      Sitelink("jawiki", tB) }

FullClaimShapes ==
    { << >>,
      (INSTANCE_OF :> << ItemSnak(Q3305213) >>),
      (INSTANCE_OF :> << MissingSnaktype >>) }

FullLineShapes(k) ==
    { ItemLine(EntityIds[k], s, cl) : s \in FullSitelinkShapes, cl \in FullClaimShapes }
      \cup {PropertyLine}

\* Lines 159-179: _parse_wd_with_shelf_func(line) in a pool worker: the tuple
\* (entry, wiki_title, article, aliased_from), or the exception that imap
\* raises again in the parent.
ShelfTuple(e, title, article, aliased_from) ==
    [entry |-> e, wiki_title |-> title, article |-> article,
     aliased_from |-> aliased_from]

\* Lines 175-177: the article under the alias, when there is one.
ViaAlias(e, title, alias, article) ==
    IF IsNone(article) THEN ShelfTuple(e, title, PyNone, None)
    ELSE ShelfTuple(e, alias, article, title)

\* Lines 172-174: the alias map, when the shelf has no article of the title.
ViaAliasMap(e, title, alias, shelf) ==
    ViaAlias(e, title, alias,
             IF Truthy(alias) THEN ArticleGet(shelf, alias) ELSE PyNone)

\* Lines 170-171: the shelf first.
ViaShelf(e, title, direct, shelf, alias_map) ==
    IF ~IsNone(direct) THEN ShelfTuple(e, title, direct, None)
    ELSE ViaAliasMap(e, title, ShelfGet(alias_map, title), shelf)

\* Lines 165-169.
ViaTitle(e, title, shelf, alias_map) ==
    IF ~Truthy(title) THEN ShelfTuple(e, title, PyNone, None)
    ELSE ViaShelf(e, title, ArticleGet(shelf, title), shelf, alias_map)

ViaEntry(e, shelf, alias_map) ==
    ViaTitle(e, IF IsNone(e) THEN None ELSE TitleGet(e.titles_by_wiki, wiki_name),
             shelf, alias_map)

ViaParsed(parsed, shelf, alias_map) ==
    IF parsed.error # "none" THEN Raised(parsed.error)
    ELSE Returned(ViaEntry(parsed.value, shelf, alias_map))

parse_wd_with_shelf_func(line, shelf, alias_map) ==
    ViaParsed(parse_dump_line(line, Whitelist({wiki_name})), shelf, alias_map)

\* Lines 257-300: the row of the intermediate file for one entity with an
\* article, or the exception that building it raises.
IntermediateRow(e, wiki_title, article, parents) ==
    IF ~hasattr(e, "direct_subclass_of") THEN Raised("AttributeError")
    ELSE Returned(
           [concept_id |-> e.id,
            title |-> wiki_title,
            pagerank |-> article.pagerank,
            pagerank_percentile |-> article.pagerank_percentile,
            sample_coord |-> e.sample_coord,
            country_of_origin |-> e.country_of_origin,
            publication_date |-> e.publication_date,
            inlinks |-> Items(article.inlinks),
            outlinks |-> Items(article.links),
            aliases |-> article.aliases,
            direct_instance_of |-> e.direct_instance_of,
            recursive_instance_of |-> AllParentsInto(parents, e.direct_instance_of, {}),
            direct_subclass_of |-> e.direct_subclass_of,
            recursive_subclass_of |-> AllParentsInto(parents, e.direct_subclass_of, {})])

\* Lines 312-317: the pairs of a row keyed by concept id; a pair whose title
\* is no key of name_to_id is dropped.
RewriteLinkPairs(pairs, name_to_id) ==
    { << name_to_id[p[1]], p[2] >> : p \in { x \in pairs : x[1] \in DOMAIN name_to_id } }

\* Lines 308-321: the second pass over the rows of the intermediate file.
SecondPass(rows, name_to_id) ==
    [j \in DOMAIN rows |->
        [rows[j] EXCEPT !.inlinks = RewriteLinkPairs(@, name_to_id),
                        !.outlinks = RewriteLinkPairs(@, name_to_id)]]

\* Lines 234-302: what one result of pool.imap does to the state of pass one.
PassOneOutcome(pc, error, considered, ids, rows) ==
    [pc |-> pc, error |-> error, num_considered |-> considered,
     name_to_id |-> ids, intermediate_rows |-> rows]

\* Lines 255-302: the entity has an article.
PassOneWrite(e, wiki_title, row, considered, ids, rows) ==
    IF row.error # "none"
    THEN PassOneOutcome("raised", row.error, considered,
                        (wiki_title :> e.id) @@ ids, rows)
    ELSE PassOneOutcome("pass_one", "none", considered,
                        (wiki_title :> e.id) @@ ids, Append(rows, row.value))

\* Lines 239-253: the counters and the three skips.
PassOneTuple(t, parents, considered, ids, rows) ==
    IF IsNone(t.entry) \/ ~Truthy(t.wiki_title) \/ IsNone(t.article)
    THEN PassOneOutcome("pass_one", "none", considered, ids, rows)
    ELSE PassOneWrite(t.entry, t.wiki_title,
                      IntermediateRow(t.entry, t.wiki_title, t.article, parents),
                      considered, ids, rows)

PassOneResult(r, parents, considered, ids, rows) ==
    IF r.error # "none"
    THEN PassOneOutcome("raised", r.error, considered, ids, rows)
    ELSE PassOneTuple(r.value, parents, considered + 1, ids, rows)

(***************************************************************************)
(* Part IX: the divergence ranking (article_rank.py): kl_divergence_rank   *)
(* over the articles two wikis have in common.  A PageRank is a whole      *)
(* number of units; the normalisation of lines 135-136 makes the unit      *)
(* irrelevant.  A divergence is never computed as a number: two of them    *)
(* are compared exactly, by the integers their order depends on.           *)
(***************************************************************************)
MaxCommon == 3
MaxPR == 2

\* An entry of common_articles.values(): the article of each wiki, by its
\* PageRank.
CommonPair(from_pr, to_pr) ==
    [from_article |-> [pagerank |-> from_pr], to_article |-> [pagerank |-> to_pr]]

CommonPairs == { CommonPair(a, b) : a \in 0..MaxPR, b \in 0..MaxPR }

\* The kl_type arguments of the model: the two directions and a string the
\* code has no branch for ("jsd" is not among them).
KlTypes == {"forward", "backward", "other"}

zeros(n) == [i \in 1..n |-> 0]

RECURSIVE Sum(_)
Sum(s) == IF Len(s) = 0 THEN 0 ELSE s[1] + Sum(Tail(s))

RECURSIVE Pow(_, _)
Pow(b, n) == IF n = 0 THEN 1 ELSE b * Pow(b, n - 1)

\* Lines 7-17 after lines 135-136: kl_calc(p, q)[i] < kl_calc(p, q)[j] for
\* p = ps / sum(ps) and q = qs / sum(qs), all positive.  The i-th divergence
\* is (ps[i] / P) * log((ps[i] * Q) / (qs[i] * P)), so the order is that of
\* ((ps[i] * Q) / (qs[i] * P)) ^ ps[i].
KlLess(ps, qs, i, j) ==
    Pow(ps[i] * Sum(qs), ps[i]) * Pow(qs[j] * Sum(ps), ps[j])
      < Pow(ps[j] * Sum(qs), ps[j]) * Pow(qs[i] * Sum(ps), ps[i])

KlEqual(ps, qs, i, j) == ~KlLess(ps, qs, i, j) /\ ~KlLess(ps, qs, j, i)

\* Line 149: scipy.stats.rankdata(kl) / len(kl), ties averaged, as the pair
\* << 2 * rank, 2 * len >>.
KlRanks(ps, qs) ==
    [i \in DOMAIN ps |->
        << 2 * Cardinality({ j \in DOMAIN ps : KlLess(ps, qs, j, i) })
             + Cardinality({ j \in DOMAIN ps : KlEqual(ps, qs, j, i) }) + 1,
           2 * Len(ps) >>]

\* Lines 151-158: sorted(..., key=lambda x: x[0]): by divergence, equal
\* divergences in the order of the input.
KlPosition(ps, qs, i) ==
    1 + Cardinality({ j \in DOMAIN ps : KlLess(ps, qs, j, i) })
      + Cardinality({ j \in 1..(i - 1) : KlEqual(ps, qs, j, i) })

KlSorted(ps, qs, articles) ==
    [k \in DOMAIN ps |->
        LET i == CHOOSE x \in DOMAIN ps : KlPosition(ps, qs, x) = k
        IN  [kl_rank |-> KlRanks(ps, qs)[i],
             from_article |-> articles[i].from_article,
             to_article |-> articles[i].to_article]]

\* Lines 134-158: after the loop.  kl_calc reads np.float, which a NumPy
\* from 1.24 on does not have; print(kl[0:10]) reads kl, which no branch
\* bound for an unknown kl_type.
KlAfterLoop(articles, prs_from, prs_to, type, has_np_float) ==
    IF type = "forward"
    THEN IF has_np_float THEN Returned(KlSorted(prs_from, prs_to, articles))
         ELSE Raised("AttributeError")
    ELSE IF type = "backward"
    THEN IF has_np_float THEN Returned(KlSorted(prs_to, prs_from, articles))
         ELSE Raised("AttributeError")
    ELSE Raised("UnboundLocalError")

(***************************************************************************)
(* The state                                                               *)
(***************************************************************************)
VARIABLES
    parsed_pages,             \* the argument: a sequence of ParsedRawPage
    resolver_pc,              \* the loop the generator is in
    resolver_i,               \* the position of that loop in what it iterates
    title_to_wikipedia_page,  \* dict title -> WikipediaCanonicalPage
    redirects,                \* dict title -> redirect target, or None
    seen_pages,               \* the local of the redirect walk
    circle_count, unresolvable_count, resolved_count,
    bad_link_count, good_link_count, file_count,
    yielded,                  \* the pages the generator has yielded, in order
    document,                 \* the XML document: its pages, each a sequence of parts
    sax_events,               \* the events xml.sax.parse has still to deliver
    sax_error,                \* the exception that ended the parse, or "none"
    handler,                  \* the WikiXMLHandler object
    queue,                    \* handler.queue: the pages put so far
    stream,                   \* the dump: a sequence of DumpPage
    limit,                    \* the limit argument of parsed_wikipedia_pages
    main_pc,                  \* where the parent process is
    main_i,                   \* the index of the parent's for loop over processes
    page_count,               \* handler.page_count: the pages handled so far
    reader_queue,             \* pages and poison values, in order
    writer_queue,             \* parsed pages in the pipe, in order
    feeder,                   \* per worker: parsed pages put, not yet in the pipe
    worker_pc,                \* per worker: where the process is
    unparsed_page,            \* per worker: the item it got
    pages,                    \* the list the parent builds and returns
    canonical_file,           \* the canonical-page file: a sequence of pages
    c,                        \* the list c of the in-memory mode
    rank_pc,                  \* per mode: where augment_with_pagerank is
    rank_i,                   \* per mode: the position of its current loop
    title_to_logical_id,      \* per mode: title -> vertex index
    edges,                    \* per mode: the weighted edges of g
    pageranks,                \* per mode: the vertex property that pagerank returns
    yielded_ranks,            \* per mode: the values pagerank() has yielded
    percentiles,              \* per mode: rankdata(pageranks) / len(pageranks)
    augmented                 \* per mode: the pages augment_with_pagerank yielded

resolverVars ==
    << parsed_pages, resolver_pc, resolver_i, title_to_wikipedia_page, redirects,
       seen_pages, circle_count, unresolvable_count, resolved_count,
       bad_link_count, good_link_count, file_count, yielded >>

ResolverStart(input) ==
    /\ parsed_pages = input
    /\ resolver_pc = "partition"
    /\ resolver_i = 1
    /\ title_to_wikipedia_page = EmptyDict
    /\ redirects = EmptyDict
    /\ seen_pages = {}
    /\ circle_count = 0
    /\ unresolvable_count = 0
    /\ resolved_count = 0
    /\ bad_link_count = 0
    /\ good_link_count = 0
    /\ file_count = 0
    /\ yielded = <<>>

xmlVars == << document, sax_events, sax_error, handler, queue >>

poolVars ==
    << stream, limit, main_pc, main_i, page_count, reader_queue, writer_queue,
       feeder, worker_pc, unparsed_page, pages >>

rankVars ==
    << canonical_file, c, rank_pc, rank_i, title_to_logical_id, edges, pageranks,
       yielded_ranks, percentiles, augmented >>

VARIABLES
    article_shelf,            \* ArticleStore[wiki]: title -> article
    alias_call,               \* what write_aliases_to_shelf is called with
    alias_shelf,              \* AliasStore[wiki]: the shelf being written
    alias_pc,                 \* where write_aliases_to_shelf is
    alias_i,                  \* the position of its loop over the articles
    alias_error               \* the exception it raised, or "none"

aliasVars ==
    << article_shelf, alias_call, alias_shelf, alias_pc, alias_i, alias_error >>

\* wikilanguage.py lines 92-93: the alias shelf is opened empty and
\* write_aliases_to_shelf is called on the article shelf.
AliasStart(shelf, call) ==
    /\ article_shelf = shelf
    /\ alias_call = call
    /\ alias_shelf = EmptyShelf
    /\ alias_pc = "writing"
    /\ alias_i = 1
    /\ alias_error = "none"

AliasIdle ==
    /\ article_shelf = EmptyShelf
    /\ alias_call = "items"
    /\ alias_shelf = EmptyShelf
    /\ alias_pc = "idle"
    /\ alias_i = 1
    /\ alias_error = "none"

VARIABLES
    inheritance_graph,        \* the edges of WikiDataInheritanceGraph.graph
    the_id,                   \* the argument of all_parents
    parents,                  \* ParentFinder.parents
    the_set,                  \* what all_parents returned
    parents_pc                \* where the caller is

parentVars == << inheritance_graph, the_id, parents, the_set, parents_pc >>

ParentsStart(graph_edges, id) ==
    /\ inheritance_graph = graph_edges
    /\ the_id = id
    /\ parents = << >>
    /\ the_set = {}
    /\ parents_pc = "parent_finder"

ParentsIdle ==
    /\ inheritance_graph = {}
    /\ the_id = Q5
    /\ parents = << >>
    /\ the_set = {}
    /\ parents_pc = "idle"

VARIABLES
    wikidata_dump,            \* the Wikidata dump file: a sequence of lines
    whitelist,                \* the whitelisted_wikis argument of write_csv
    csv_limit,                \* its limit argument (NoneFloat for None)
    csv_pc,                   \* where write_csv is
    csv_i,                    \* the lines its loop has taken
    csv_error,                \* the exception it raised, or "none"
    csv_rows,                 \* the rows written after the header
    entry                     \* what parse_dump_line returned last

joinVars ==
    << wikidata_dump, whitelist, csv_limit, csv_pc, csv_i, csv_error, csv_rows,
       entry >>

JoinStart(dump, whitelisted_wikis, limit_arg) ==
    /\ wikidata_dump = dump
    /\ whitelist = whitelisted_wikis
    /\ csv_limit = limit_arg
    /\ csv_pc = "open"
    /\ csv_i = 0
    /\ csv_error = "none"
    /\ csv_rows = << >>
    /\ entry = PyNone

JoinIdle ==
    /\ wikidata_dump = << >>
    /\ whitelist = NoWhitelist
    /\ csv_limit = NoneFloat
    /\ csv_pc = "idle"
    /\ csv_i = 0
    /\ csv_error = "none"
    /\ csv_rows = << >>
    /\ entry = PyNone

VARIABLES
    full_dump,                \* the Wikidata dump file of write_full_wiki_csv
    full_limit,               \* its limit argument (NoneFloat for None)
    full_pc,                  \* where write_full_wiki_csv is
    full_i,                   \* the results of pool.imap it has taken
    full_error,               \* the exception it raised, or "none"
    num_considered,           \* the counter of line 239
    name_to_id,               \* title -> concept id, built in pass one
    intermediate_rows,        \* the rows of the intermediate file
    full_rows                 \* the rows of the output file

fullVars ==
    << full_dump, full_limit, full_pc, full_i, full_error, num_considered,
       name_to_id, intermediate_rows, full_rows >>

FullStart(dump, limit_arg) ==
    /\ full_dump = dump
    /\ full_limit = limit_arg
    /\ full_pc = "pass_one"
    /\ full_i = 0
    /\ full_error = "none"
    /\ num_considered = 0
    /\ name_to_id = << >>
    /\ intermediate_rows = << >>
    /\ full_rows = << >>

FullIdle ==
    /\ full_dump = << >>
    /\ full_limit = NoneFloat
    /\ full_pc = "idle"
    /\ full_i = 0
    /\ full_error = "none"
    /\ num_considered = 0
    /\ name_to_id = << >>
    /\ intermediate_rows = << >>
    /\ full_rows = << >>

VARIABLES
    common_articles,          \* list(common_articles.values())
    kl_type,                  \* the kl_type argument
    np_float,                 \* whether the NumPy of the build has np.float
    from_prs,                 \* the array of line 124
    to_prs,                   \* the array of line 125
    kl_pc,                    \* where kl_divergence_rank is
    kl_i,                     \* the entries its loop has taken
    kl_error,                 \* the exception it raised, or "none"
    kl_result                 \* the list it returned

klVars ==
    << common_articles, kl_type, np_float, from_prs, to_prs, kl_pc, kl_i,
       kl_error, kl_result >>

KlStart(articles, type, has_np_float) ==
    /\ common_articles = articles
    /\ kl_type = type
    /\ np_float = has_np_float
    /\ from_prs = zeros(Len(articles))
    /\ to_prs = zeros(Len(articles))
    /\ kl_pc = "loop"
    /\ kl_i = 0
    /\ kl_error = "none"
    /\ kl_result = << >>

KlIdle ==
    /\ common_articles = << >>
    /\ kl_type = "forward"
    /\ np_float = TRUE
    /\ from_prs = << >>
    /\ to_prs = << >>
    /\ kl_pc = "idle"
    /\ kl_i = 0
    /\ kl_error = "none"
    /\ kl_result = << >>

VARIABLES
    direct_classes,           \* entry.direct_instance_of of the row
    classes_todo,             \* what the loop over it has not taken yet
    recursive_instance_concepts, \* the shared set of line 371
    concepts_pc               \* where the joiner's row is

conceptVars ==
    << direct_classes, classes_todo, recursive_instance_concepts, concepts_pc >>

\* pipelines.py line 371 with the ParentFinder of wikilanguage.py line 123:
\* the shared set starts empty.  The finder is the one of parentVars.
ConceptsStart(graph_edges, classes) ==
    /\ inheritance_graph = graph_edges
    /\ the_id = Q5
    /\ parents = << >>
    /\ the_set = {}
    /\ parents_pc = "parent_finder"
    /\ direct_classes = classes
    /\ classes_todo = classes
    /\ recursive_instance_concepts = {}
    /\ concepts_pc = "loop"

ConceptsIdle ==
    /\ direct_classes = {}
    /\ classes_todo = {}
    /\ recursive_instance_concepts = {}
    /\ concepts_pc = "idle"

pipelineVars == << aliasVars, parentVars, joinVars, fullVars, klVars, conceptVars >>

PipelineIdle ==
    AliasIdle /\ ParentsIdle /\ JoinIdle /\ FullIdle /\ KlIdle /\ ConceptsIdle

vars == << resolverVars, xmlVars, poolVars, rankVars, pipelineVars >>

\* The two values of the in_memory argument.
Modes == {TRUE, FALSE}

\* augment_with_pagerank(file, in_memory = m) is called for both modes.
RankStart(file) ==
    /\ canonical_file = file
    /\ c = <<>>
    /\ rank_pc = [m \in Modes |-> "load"]
    /\ rank_i = [m \in Modes |-> 1]
    /\ title_to_logical_id = [m \in Modes |-> <<>>]
    /\ edges = [m \in Modes |-> {}]
    /\ pageranks = [m \in Modes |-> <<>>]
    /\ yielded_ranks = [m \in Modes |-> <<>>]
    /\ percentiles = [m \in Modes |-> <<>>]
    /\ augmented = [m \in Modes |-> <<>>]

\* augment_with_pagerank is not called.
RankIdle ==
    /\ canonical_file = <<>>
    /\ c = <<>>
    /\ rank_pc = [m \in Modes |-> "idle"]
    /\ rank_i = [m \in Modes |-> 1]
    /\ title_to_logical_id = [m \in Modes |-> <<>>]
    /\ edges = [m \in Modes |-> {}]
    /\ pageranks = [m \in Modes |-> <<>>]
    /\ yielded_ranks = [m \in Modes |-> <<>>]
    /\ percentiles = [m \in Modes |-> <<>>]
    /\ augmented = [m \in Modes |-> <<>>]

\* Lines 314-327: the queues are empty, the workers started, the parse about
\* to begin.
PoolStart(s, l) ==
    /\ stream = s
    /\ limit = l
    /\ main_pc = "parse"
    /\ main_i = 1
    /\ page_count = 0
    /\ reader_queue = <<>>
    /\ writer_queue = <<>>
    /\ feeder = [w \in Workers |-> <<>>]
    /\ worker_pc = [w \in Workers |-> "get"]
    /\ unparsed_page = [w \in Workers |-> Poison]
    /\ pages = <<>>

\* parsed_wikipedia_pages is not running.
PoolIdle ==
    /\ stream = <<>>
    /\ limit = 0
    /\ main_pc = "idle"
    /\ main_i = 1
    /\ page_count = 0
    /\ reader_queue = <<>>
    /\ writer_queue = <<>>
    /\ feeder = [w \in Workers |-> <<>>]
    /\ worker_pc = [w \in Workers |-> "idle"]
    /\ unparsed_page = [w \in Workers |-> Poison]
    /\ pages = <<>>

\* No document: the handler has nothing to do.
XmlIdle ==
    /\ document = <<>>
    /\ sax_events = <<>>
    /\ sax_error = "none"
    /\ handler = WikiXMLHandler(0)
    /\ queue = <<>>

\* No parsed pages: the resolver has nothing to do.
ResolverIdle == ResolverStart(<<>>)

XmlStart(doc, l) ==
    /\ document = doc
    /\ sax_events = DocumentEvents(doc)
    /\ sax_error = "none"
    /\ handler = WikiXMLHandler(l)
    /\ queue = <<>>

ResolverInit ==
    /\ \/ \E n \in 1..MaxPages : \E sh \in [1..n -> PageShapes] :
             ResolverStart(GenericInput(n, sh))
       \/ \E input \in ScenarioInputs : ResolverStart(input)
    /\ XmlIdle
    /\ PoolIdle
    /\ RankIdle
    /\ PipelineIdle

XmlInit ==
    (\E doc \in Documents, l \in Limits : XmlStart(doc, l)) /\ ResolverIdle
      /\ PoolIdle /\ RankIdle /\ PipelineIdle

PoolInit ==
    (\E s \in Streams, l \in PoolLimits : PoolStart(s, l)) /\ ResolverIdle
      /\ XmlIdle /\ RankIdle /\ PipelineIdle

RankInit ==
    /\ \E n \in 1..MaxRankPages : \E lk \in [1..n -> LinkMaps(n)] :
          RankStart(CanonicalFile(n, lk))
    /\ ResolverIdle
    /\ XmlIdle
    /\ PoolIdle
    /\ PipelineIdle



AliasInit ==
    /\ \E present \in SUBSET (1..MaxArticles) :
         \E owner \in [StoreAliases -> {0} \cup present] :
           \E call \in AliasCalls :
             AliasStart(ArticleStore(present, owner), call)
    /\ ParentsIdle
    /\ JoinIdle
    /\ FullIdle
    /\ KlIdle
    /\ ConceptsIdle
    /\ ResolverIdle
    /\ XmlIdle
    /\ PoolIdle
    /\ RankIdle

ParentsInit ==
    /\ \E graph_edges \in InheritanceGraphs, id \in ConceptIds :
          ParentsStart(graph_edges, id)
    /\ AliasIdle
    /\ JoinIdle
    /\ FullIdle
    /\ KlIdle
    /\ ConceptsIdle
    /\ ResolverIdle
    /\ XmlIdle
    /\ PoolIdle
    /\ RankIdle

\* The whitelisted_wikis arguments: None (as the driver passes), one of the
\* two wikis that have shelves, both of them.
Whitelists == { NoWhitelist, Whitelist({"enwiki"}), Whitelist(TargetWikis) }

JoinInit ==
    /\ \E n \in 0..MaxEntities :
         \E body \in [1..n -> UNION { LineShapes(k) : k \in 1..MaxEntities }] :
           /\ \A k \in 1..n : body[k] \in LineShapes(k)
           /\ \E whitelisted_wikis \in Whitelists, limit_arg \in {NoneFloat, RowLimit} :
                 JoinStart(WikidataDump(n, body), whitelisted_wikis, limit_arg)
    /\ FullIdle
    /\ KlIdle
    /\ AliasIdle
    /\ ParentsIdle
    /\ ConceptsIdle
    /\ ResolverIdle
    /\ XmlIdle
    /\ PoolIdle
    /\ RankIdle

FullInit ==
    /\ \E n \in 0..MaxEntities :
         \E body \in [1..n -> UNION { FullLineShapes(k) : k \in 1..MaxEntities }] :
           /\ \A k \in 1..n : body[k] \in FullLineShapes(k)
           /\ \E limit_arg \in {NoneFloat, RowLimit} :
                 FullStart(WikidataDump(n, body), limit_arg)
    /\ KlIdle
    /\ JoinIdle
    /\ AliasIdle
    /\ ParentsIdle
    /\ ConceptsIdle
    /\ ResolverIdle
    /\ XmlIdle
    /\ PoolIdle
    /\ RankIdle

KlInit ==
    /\ \E n \in 0..MaxCommon :
         \E articles \in [1..n -> CommonPairs] :
           \E type \in KlTypes, has_np_float \in BOOLEAN :
             KlStart(articles, type, has_np_float)
    /\ FullIdle
    /\ JoinIdle
    /\ AliasIdle
    /\ ParentsIdle
    /\ ConceptsIdle
    /\ ResolverIdle
    /\ XmlIdle
    /\ PoolIdle
    /\ RankIdle

\* The rows of the joiner: every set of direct classes over every graph.
ConceptsInit ==
    /\ \E graph_edges \in InheritanceGraphs, classes \in SUBSET ConceptIds :
          ConceptsStart(graph_edges, classes)
    /\ AliasIdle
    /\ JoinIdle
    /\ FullIdle
    /\ KlIdle
    /\ ResolverIdle
    /\ XmlIdle
    /\ PoolIdle
    /\ RankIdle
(***************************************************************************)
(* resolve_parsed_pages as a state machine                                 *)
(***************************************************************************)
\* The loop that runs after the "Parsing pages" loop: a for loop over an
\* empty dict has no iteration.
AfterPartition(ttwp, rdr) ==
    IF Len(rdr.keys) > 0 THEN "aliases"
    ELSE IF Len(ttwp.keys) > 0 THEN "links" ELSE "done"

\* Lines 360-372.
ParsePage ==
    /\ resolver_pc = "partition"
    /\ resolver_i <= Len(parsed_pages)
    /\ LET r == PartitionPage(title_to_wikipedia_page, redirects,
                              parsed_pages[resolver_i])
       IN  /\ title_to_wikipedia_page' = r.ttwp
           /\ redirects' = r.redirects
           /\ IF resolver_i < Len(parsed_pages)
              THEN resolver_pc' = "partition" /\ resolver_i' = resolver_i + 1
              ELSE resolver_pc' = AfterPartition(r.ttwp, r.redirects)
                   /\ resolver_i' = 1
    /\ UNCHANGED << parsed_pages, seen_pages, circle_count, unresolvable_count,
                    resolved_count, bad_link_count, good_link_count, file_count,
                    yielded >>
    /\ UNCHANGED << xmlVars, poolVars, rankVars, pipelineVars >>

\* Lines 379-405: one redirect source; after the last one, the assertion
\* that every source was counted once.
CreateAlias ==
    /\ resolver_pc = "aliases"
    /\ resolver_i <= Len(redirects.keys)
    /\ LET r == ResolveRedirect(title_to_wikipedia_page, redirects,
                                redirects.keys[resolver_i], seen_pages)
           circle == circle_count + (IF r.kind = "circle" THEN 1 ELSE 0)
           unresolvable == unresolvable_count
                             + (IF r.kind = "unresolvable" THEN 1 ELSE 0)
           resolved == resolved_count + (IF r.kind = "resolved" THEN 1 ELSE 0)
       IN  /\ title_to_wikipedia_page' = r.ttwp
           /\ redirects' = r.redirects
           /\ seen_pages' = r.seen
           /\ circle_count' = circle
           /\ unresolvable_count' = unresolvable
           /\ resolved_count' = resolved
           /\ IF resolver_i < Len(redirects.keys)
              THEN resolver_pc' = "aliases" /\ resolver_i' = resolver_i + 1
              ELSE /\ resolver_i' = 1
                   /\ resolver_pc' =
                        IF circle + unresolvable + resolved # Len(redirects.keys)
                        THEN "AssertionError"
                        ELSE IF Len(title_to_wikipedia_page.keys) > 0
                             THEN "links" ELSE "done"
    /\ UNCHANGED << parsed_pages, bad_link_count, good_link_count, file_count,
                    yielded >>
    /\ UNCHANGED << xmlVars, poolVars, rankVars, pipelineVars >>

\* Lines 418-454: one terminal page.
ResolveDeepestLinks ==
    /\ resolver_pc = "links"
    /\ resolver_i <= Len(title_to_wikipedia_page.keys)
    /\ LET r == RewritePage(title_to_wikipedia_page, redirects,
                            title_to_wikipedia_page.keys[resolver_i])
       IN  /\ title_to_wikipedia_page' =
                 IF r.assert_failed THEN title_to_wikipedia_page ELSE r.ttwp
           /\ good_link_count' = good_link_count + r.good
           /\ bad_link_count' = bad_link_count + r.bad
           /\ file_count' = file_count + r.file
           /\ IF r.assert_failed
              THEN resolver_pc' = "AssertionError" /\ resolver_i' = resolver_i
              ELSE IF resolver_i < Len(title_to_wikipedia_page.keys)
                   THEN resolver_pc' = "links" /\ resolver_i' = resolver_i + 1
                   ELSE resolver_pc' = "yield" /\ resolver_i' = 1
    /\ UNCHANGED << parsed_pages, redirects, seen_pages, circle_count,
                    unresolvable_count, resolved_count, yielded >>
    /\ UNCHANGED << xmlVars, poolVars, rankVars, pipelineVars >>

\* Lines 464-470: popitem() takes the last inserted article; KeyError on the
\* empty dict ends the generator.
YieldPage ==
    /\ resolver_pc = "yield"
    /\ Len(title_to_wikipedia_page.keys) > 0
    /\ LET k == title_to_wikipedia_page.keys[Len(title_to_wikipedia_page.keys)]
       IN  /\ yielded' = Append(yielded, title_to_wikipedia_page.val[k])
           /\ title_to_wikipedia_page' = DictPopLast(title_to_wikipedia_page)
           /\ resolver_pc' = IF Len(title_to_wikipedia_page.keys) = 1
                             THEN "done" ELSE "yield"
    /\ UNCHANGED << parsed_pages, resolver_i, redirects, seen_pages, circle_count,
                    unresolvable_count, resolved_count, bad_link_count,
                    good_link_count, file_count >>
    /\ UNCHANGED << xmlVars, poolVars, rankVars, pipelineVars >>

ResolverNext == ParsePage \/ CreateAlias \/ ResolveDeepestLinks \/ YieldPage

SpecResolver == ResolverInit /\ [][ResolverNext]_vars

(***************************************************************************)
(* xml.sax.parse(stream, handler) as a state machine: one action per       *)
(* handler callback; an exception ends the parse.                          *)
(***************************************************************************)
Deliver(r) ==
    /\ handler' = r.h
    /\ queue' = r.queue
    /\ sax_error' = r.exc
    /\ sax_events' = Tail(sax_events)
    /\ UNCHANGED document
    /\ UNCHANGED << resolverVars, poolVars, rankVars, pipelineVars >>

SaxStartElement ==
    /\ sax_error = "none"
    /\ sax_events # <<>>
    /\ Head(sax_events).type = "start"
    /\ Deliver(startElement(handler, queue, Head(sax_events).name,
                            Head(sax_events).attrs))

SaxEndElement ==
    /\ sax_error = "none"
    /\ sax_events # <<>>
    /\ Head(sax_events).type = "end"
    /\ Deliver(endElement(handler, queue, Head(sax_events).name))

SaxCharacters ==
    /\ sax_error = "none"
    /\ sax_events # <<>>
    /\ Head(sax_events).type = "chars"
    /\ Deliver(characters(handler, queue, Head(sax_events).data))

XmlNext == SaxStartElement \/ SaxEndElement \/ SaxCharacters

SpecXml == XmlInit /\ [][XmlNext]_vars

(***************************************************************************)
(* parsed_wikipedia_pages as a state machine: the parent and the workers   *)
(***************************************************************************)
is_alive(w) == worker_pc[w] \in {"get", "parse", "exiting", "crashing"}

\* The handler puts the page without waiting for room on the reader queue.
MainHandlePageNoWait ==
    /\ main_pc = "parse"
    /\ page_count < Len(stream)
    /\ stream[page_count + 1].kind # "corrupt"
    /\ reader_queue' = Append(reader_queue, stream[page_count + 1])
    /\ page_count' = page_count + 1
    /\ main_pc' = IF \/ (limit # 0 /\ page_count + 1 >= limit)
                     \/ page_count + 1 = Len(stream)
                  THEN "poison" ELSE "parse"
    /\ UNCHANGED << stream, limit, main_i, writer_queue, feeder, worker_pc,
                    unparsed_page, pages >>
    /\ UNCHANGED << resolverVars, xmlVars, rankVars, pipelineVars >>

\* The handler never raises the sentinel: the parse ends with the stream.
MainHandlePageNoSentinel ==
    /\ main_pc = "parse"
    /\ page_count < Len(stream)
    /\ stream[page_count + 1].kind # "corrupt"
    /\ Len(reader_queue) < ReaderQueueSize
    /\ reader_queue' = Append(reader_queue, stream[page_count + 1])
    /\ page_count' = page_count + 1
    /\ main_pc' = IF page_count + 1 = Len(stream) THEN "poison" ELSE "parse"
    /\ UNCHANGED << stream, limit, main_i, writer_queue, feeder, worker_pc,
                    unparsed_page, pages >>
    /\ UNCHANGED << resolverVars, xmlVars, rankVars, pipelineVars >>

\* Lines 329 and 249-259: the handler completes the next page of the dump and
\* puts it on the reader queue, waiting while the queue is full; the parse
\* ends after the last page, or by StopIteration at the limit.
MainHandlePage ==
    /\ main_pc = "parse"
    /\ page_count < Len(stream)
    /\ stream[page_count + 1].kind # "corrupt"
    /\ Len(reader_queue) < ReaderQueueSize
    /\ reader_queue' = Append(reader_queue, stream[page_count + 1])
    /\ page_count' = page_count + 1
    /\ main_pc' = IF \/ (limit # 0 /\ page_count + 1 >= limit)
                     \/ page_count + 1 = Len(stream)
                  THEN "poison" ELSE "parse"
    /\ UNCHANGED << stream, limit, main_i, writer_queue, feeder, worker_pc,
                    unparsed_page, pages >>
    /\ UNCHANGED << resolverVars, xmlVars, rankVars, pipelineVars >>

\* Lines 329 and 347-351: the handler raises inside the next page; the parent
\* terminates every process and raises.
MainHandlerRaises ==
    /\ main_pc = "parse"
    /\ page_count < Len(stream)
    /\ stream[page_count + 1].kind = "corrupt"
    /\ main_pc' = "raised"
    /\ worker_pc' = [w \in Workers |->
                        IF is_alive(w) THEN "terminated" ELSE worker_pc[w]]
    /\ feeder' = [w \in Workers |-> <<>>]
    /\ UNCHANGED << stream, limit, main_i, page_count, reader_queue,
                    writer_queue, unparsed_page, pages >>
    /\ UNCHANGED << resolverVars, xmlVars, rankVars, pipelineVars >>

\* One poison value in all, whatever the number of processes.
MainPutPoisonOnce ==
    /\ main_pc = "poison"
    /\ Len(reader_queue) < ReaderQueueSize
    /\ reader_queue' = Append(reader_queue, Poison)
    /\ main_i' = 1
    /\ main_pc' = "drain"
    /\ UNCHANGED << stream, limit, page_count, writer_queue, feeder, worker_pc,
                    unparsed_page, pages >>
    /\ UNCHANGED << resolverVars, xmlVars, rankVars, pipelineVars >>

\* Lines 333-334: one poison value per process, waiting while the queue is
\* full.
MainPutPoison ==
    /\ main_pc = "poison"
    /\ Len(reader_queue) < ReaderQueueSize
    /\ reader_queue' = Append(reader_queue, Poison)
    /\ IF main_i < Concurrency
       THEN main_i' = main_i + 1 /\ main_pc' = "poison"
       ELSE main_i' = 1 /\ main_pc' = "drain"
    /\ UNCHANGED << stream, limit, page_count, writer_queue, feeder, worker_pc,
                    unparsed_page, pages >>
    /\ UNCHANGED << resolverVars, xmlVars, rankVars, pipelineVars >>

\* Line 339: writer_queue.get(False) finds a page in the pipe.
MainGetPage ==
    /\ main_pc = "drain"
    /\ writer_queue # <<>>
    /\ pages' = Append(pages, Head(writer_queue))
    /\ writer_queue' = Tail(writer_queue)
    /\ UNCHANGED << stream, limit, main_pc, main_i, page_count, reader_queue,
                    feeder, worker_pc, unparsed_page >>
    /\ UNCHANGED << resolverVars, xmlVars, rankVars, pipelineVars >>

\* Lines 339-340: writer_queue.get(False) finds the pipe empty: queue.Empty.
MainGetEmpty ==
    /\ main_pc = "drain"
    /\ writer_queue = <<>>
    /\ main_pc' = "alive"
    /\ main_i' = 1
    /\ UNCHANGED << stream, limit, page_count, reader_queue, writer_queue,
                    feeder, worker_pc, unparsed_page, pages >>
    /\ UNCHANGED << resolverVars, xmlVars, rankVars, pipelineVars >>

\* Lines 341-346: any(p.is_alive() for p in processes), one process at a
\* time: continue at the first one alive, break and return when none is.
MainIsAlive ==
    /\ main_pc = "alive"
    /\ IF is_alive(main_i)
       THEN main_pc' = "drain" /\ main_i' = 1
       ELSE IF main_i < Concurrency
            THEN main_pc' = "alive" /\ main_i' = main_i + 1
            ELSE main_pc' = "returned" /\ main_i' = 1
    /\ UNCHANGED << stream, limit, page_count, reader_queue, writer_queue,
                    feeder, worker_pc, unparsed_page, pages >>
    /\ UNCHANGED << resolverVars, xmlVars, rankVars, pipelineVars >>

\* Lines 293-295: reader_queue.get() waits for an item; None ends the worker.
WorkerGet(w) ==
    /\ worker_pc[w] = "get"
    /\ reader_queue # <<>>
    /\ reader_queue' = Tail(reader_queue)
    /\ unparsed_page' = [unparsed_page EXCEPT ![w] = Head(reader_queue)]
    /\ worker_pc' = [worker_pc EXCEPT ![w] =
                        IF Head(reader_queue) = Poison THEN "exiting" ELSE "parse"]
    /\ UNCHANGED << stream, limit, main_pc, main_i, page_count, writer_queue,
                    feeder, pages >>
    /\ UNCHANGED << resolverVars, xmlVars, rankVars, pipelineVars >>

\* Lines 297-300 and 306-312: the page is parsed and put on the writer queue.
WorkerParsed(w) ==
    /\ worker_pc[w] = "parse"
    /\ unparsed_page[w].kind = "ok"
    /\ feeder' = [feeder EXCEPT ![w] = Append(@, unparsed_page[w].id)]
    /\ worker_pc' = [worker_pc EXCEPT ![w] = "get"]
    /\ UNCHANGED << stream, limit, main_pc, main_i, page_count, reader_queue,
                    writer_queue, unparsed_page, pages >>
    /\ UNCHANGED << resolverVars, xmlVars, rankVars, pipelineVars >>

\* The TimeoutError ends the worker's loop.
WorkerTimedOutReturns(w) ==
    /\ worker_pc[w] = "parse"
    /\ unparsed_page[w].kind = "timeout"
    /\ worker_pc' = [worker_pc EXCEPT ![w] = "exiting"]
    /\ UNCHANGED << stream, limit, main_pc, main_i, page_count, reader_queue,
                    writer_queue, feeder, unparsed_page, pages >>
    /\ UNCHANGED << resolverVars, xmlVars, rankVars, pipelineVars >>

\* Lines 301-305: TimeoutError is caught, the page dropped, the loop continues.
WorkerTimedOut(w) ==
    /\ worker_pc[w] = "parse"
    /\ unparsed_page[w].kind = "timeout"
    /\ worker_pc' = [worker_pc EXCEPT ![w] = "get"]
    /\ UNCHANGED << stream, limit, main_pc, main_i, page_count, reader_queue,
                    writer_queue, feeder, unparsed_page, pages >>
    /\ UNCHANGED << resolverVars, xmlVars, rankVars, pipelineVars >>

\* Lines 297-301: an exception that is no TimeoutError is not caught: it ends
\* the worker's function, and with it the process.
WorkerRaised(w) ==
    /\ worker_pc[w] = "parse"
    /\ unparsed_page[w].kind = "raise"
    /\ worker_pc' = [worker_pc EXCEPT ![w] = "crashing"]
    /\ UNCHANGED << stream, limit, main_pc, main_i, page_count, reader_queue,
                    writer_queue, feeder, unparsed_page, pages >>
    /\ UNCHANGED << resolverVars, xmlVars, rankVars, pipelineVars >>

\* Line 312, the queue's feeder thread: a page that was put reaches the pipe.
FeederWrite(w) ==
    /\ is_alive(w)
    /\ feeder[w] # <<>>
    /\ writer_queue' = Append(writer_queue, Head(feeder[w]))
    /\ feeder' = [feeder EXCEPT ![w] = Tail(@)]
    /\ UNCHANGED << stream, limit, main_pc, main_i, page_count, reader_queue,
                    worker_pc, unparsed_page, pages >>
    /\ UNCHANGED << resolverVars, xmlVars, rankVars, pipelineVars >>

\* Lines 295 and 320-324: the process ends once its feeder thread has written
\* what was put; from then on is_alive() is false.
WorkerExit(w) ==
    /\ worker_pc[w] \in {"exiting", "crashing"}
    /\ feeder[w] = <<>>
    /\ worker_pc' = [worker_pc EXCEPT ![w] =
                        IF worker_pc[w] = "exiting" THEN "returned" ELSE "crashed"]
    /\ UNCHANGED << stream, limit, main_pc, main_i, page_count, reader_queue,
                    writer_queue, feeder, unparsed_page, pages >>
    /\ UNCHANGED << resolverVars, xmlVars, rankVars, pipelineVars >>

PoolNext ==
    \/ MainHandlePage
    \/ MainHandlerRaises
    \/ MainPutPoison
    \/ MainGetPage
    \/ MainGetEmpty
    \/ MainIsAlive
    \/ \E w \in Workers :
          \/ WorkerGet(w)
          \/ WorkerParsed(w)
          \/ WorkerTimedOut(w)
          \/ WorkerRaised(w)
          \/ FeederWrite(w)
          \/ WorkerExit(w)

SpecPool == PoolInit /\ [][PoolNext]_vars


\* The scheduling of the operating system: the parent and every worker
\* process, with its feeder thread, get to take the step they are ready for.
PoolFairness ==
    /\ WF_vars(MainHandlePage)
    /\ WF_vars(MainHandlerRaises)
    /\ WF_vars(MainPutPoison)
    /\ WF_vars(MainGetPage)
    /\ WF_vars(MainGetEmpty)
    /\ WF_vars(MainIsAlive)
    /\ \A w \in Workers :
          /\ WF_vars(WorkerGet(w))
          /\ WF_vars(WorkerParsed(w))
          /\ WF_vars(WorkerTimedOut(w))
          /\ WF_vars(WorkerRaised(w))
          /\ WF_vars(FeederWrite(w))
          /\ WF_vars(WorkerExit(w))

SpecPoolFair == PoolInit /\ [][PoolNext]_vars /\ PoolFairness

(***************************************************************************)
(* augment_with_pagerank as a state machine, once per mode; the in-memory  *)
(* call is made first, the streaming call after it.                        *)
(***************************************************************************)
\* What the call-th call of loader() of mode m returns, as it is now.
Loaded(m, call) == loader(m, canonical_file, c, call)

RankTurn(m) == m \/ rank_pc[TRUE] \in {"done", "KeyError"}

RankStep(m, pc, i) ==
    /\ rank_pc' = [rank_pc EXCEPT ![m] = pc]
    /\ rank_i' = [rank_i EXCEPT ![m] = i]
    /\ UNCHANGED canonical_file
    /\ UNCHANGED << resolverVars, xmlVars, poolVars, pipelineVars >>

\* The loop to enter for a collection of the given length: a for loop over
\* an empty collection has no iteration.
LoopOrNext(collection, loop, next) == IF Len(collection) > 0 THEN loop ELSE next

\* pipelines.py lines 101-110: in memory, the file is read into the list c.
RankLoad(m) ==
    /\ RankTurn(m)
    /\ rank_pc[m] = "load"
    /\ c' = IF m THEN canonical_file ELSE c
    /\ RankStep(m, LoopOrNext(canonical_file, "titles", "edges"), 1)
    /\ UNCHANGED << title_to_logical_id, edges, pageranks, yielded_ranks,
                    percentiles, augmented >>

\* pagerank.py lines 13-15: one page of the title map, from the first call of
\* the loader.
RankTitle(m) ==
    /\ RankTurn(m)
    /\ rank_pc[m] = "titles"
    /\ rank_i[m] <= Len(Loaded(m, 1))
    /\ title_to_logical_id' =
          [title_to_logical_id EXCEPT ![m] =
              (Loaded(m, 1)[rank_i[m]].title :> (rank_i[m] - 1)) @@ @]
    /\ IF rank_i[m] < Len(Loaded(m, 1))
       THEN RankStep(m, "titles", rank_i[m] + 1)
       ELSE RankStep(m, LoopOrNext(Loaded(m, 2), "edges", "pagerank"), 1)
    /\ UNCHANGED << c, edges, pageranks, yielded_ranks, percentiles, augmented >>

\* pagerank.py lines 23-29: the edges of one page, from the second call.
RankEdges(m) ==
    /\ RankTurn(m)
    /\ rank_pc[m] = "edges"
    /\ rank_i[m] <= Len(Loaded(m, 2))
    /\ LET r == PageEdges(Loaded(m, 2)[rank_i[m]], title_to_logical_id[m])
       IN  IF r.key_error
           THEN /\ RankStep(m, "KeyError", rank_i[m])
                /\ UNCHANGED edges
           ELSE /\ edges' = [edges EXCEPT ![m] = @ \cup r.edges]
                /\ IF rank_i[m] < Len(Loaded(m, 2))
                   THEN RankStep(m, "edges", rank_i[m] + 1)
                   ELSE RankStep(m, "pagerank", 1)
    /\ UNCHANGED << c, title_to_logical_id, pageranks, yielded_ranks,
                    percentiles, augmented >>

\* pagerank.py lines 19 and 34: g has one vertex per title of the map.
RankCompute(m) ==
    /\ RankTurn(m)
    /\ rank_pc[m] = "pagerank"
    /\ pageranks' =
          [pageranks EXCEPT ![m] =
              graph_pagerank(Cardinality(DOMAIN title_to_logical_id[m]), edges[m])]
    /\ RankStep(m, LoopOrNext(Loaded(m, 3), "yield", "percentiles"), 1)
    /\ UNCHANGED << c, title_to_logical_id, edges, yielded_ranks, percentiles,
                    augmented >>

\* pagerank.py lines 38-39 and 43: the value of one page, from the third call.
RankYield(m) ==
    /\ RankTurn(m)
    /\ rank_pc[m] = "yield"
    /\ rank_i[m] <= Len(Loaded(m, 3))
    /\ yielded_ranks' =
          [yielded_ranks EXCEPT ![m] = Append(@, pageranks[m][rank_i[m] - 1])]
    /\ IF rank_i[m] < Len(Loaded(m, 3))
       THEN RankStep(m, "yield", rank_i[m] + 1)
       ELSE RankStep(m, "percentiles", 1)
    /\ UNCHANGED << c, title_to_logical_id, edges, pageranks, percentiles,
                    augmented >>

\* pagerank.py lines 44-48.
RankPercentiles(m) ==
    /\ RankTurn(m)
    /\ rank_pc[m] = "percentiles"
    /\ percentiles' = [percentiles EXCEPT ![m] = rank_percentiles(yielded_ranks[m])]
    /\ RankStep(m, IF Min2(Len(Loaded(m, 4)), Len(yielded_ranks[m])) > 0
                   THEN "zip" ELSE "done", 1)
    /\ UNCHANGED << c, title_to_logical_id, edges, pageranks, yielded_ranks,
                    augmented >>

\* pagerank.py lines 50-51 and pipelines.py lines 112-115: one item of the zip
\* over the fourth call; the page object gets its pagerank and percentile and
\* is yielded.  In memory that object is the element of c.
RankAugment(m) ==
    /\ RankTurn(m)
    /\ rank_pc[m] = "zip"
    /\ rank_i[m] <= Min2(Len(Loaded(m, 4)), Len(yielded_ranks[m]))
    /\ LET page == [Loaded(m, 4)[rank_i[m]] EXCEPT
                       !.pagerank = yielded_ranks[m][rank_i[m]],
                       !.pagerank_percentile = percentiles[m][rank_i[m]]]
       IN  /\ augmented' = [augmented EXCEPT ![m] = Append(@, page)]
           /\ c' = IF m THEN [c EXCEPT ![rank_i[m]] = page] ELSE c
    /\ IF rank_i[m] < Min2(Len(Loaded(m, 4)), Len(yielded_ranks[m]))
       THEN RankStep(m, "zip", rank_i[m] + 1)
       ELSE RankStep(m, "done", 1)
    /\ UNCHANGED << title_to_logical_id, edges, pageranks, yielded_ranks,
                    percentiles >>

RankNext ==
    \E m \in Modes :
        \/ RankLoad(m)
        \/ RankTitle(m)
        \/ RankEdges(m)
        \/ RankCompute(m)
        \/ RankYield(m)
        \/ RankPercentiles(m)
        \/ RankAugment(m)

SpecRank == RankInit /\ [][RankNext]_vars

(***************************************************************************)
(* write_aliases_to_shelf as a state machine: one step per element of its  *)
(* argument.                                                               *)
(***************************************************************************)
\* pipelines.py lines 138-141: the for loop; an exception ends the call (and,
\* through the finally clause of wikilanguage.py line 137, the driver).
WriteAliasesToShelf ==
    /\ alias_pc = "writing"
    /\ LET articles == AliasArgument(alias_call, article_shelf)
       IN  IF alias_i > Len(articles)
           THEN /\ alias_pc' = "done"
                /\ UNCHANGED << alias_shelf, alias_i, alias_error >>
           ELSE LET r == WriteArticleAliases(articles[alias_i], alias_shelf)
                IN  /\ alias_shelf' = r.shelf
                    /\ alias_error' = r.error
                    /\ alias_pc' = IF r.error = "none" THEN "writing" ELSE "raised"
                    /\ alias_i' = alias_i + 1
    /\ UNCHANGED << article_shelf, alias_call >>
    /\ UNCHANGED << resolverVars, xmlVars, poolVars, rankVars, parentVars, joinVars, fullVars, klVars, conceptVars >>

AliasNext == WriteAliasesToShelf

SpecAlias == AliasInit /\ [][AliasNext]_vars

(***************************************************************************)
(* ParentFinder: the driver builds it once (wikilanguage.py line 123) and  *)
(* a caller asks it for the ancestors of a concept.                        *)
(***************************************************************************)
ParentFinderBuilt ==
    /\ parents_pc = "parent_finder"
    /\ parents' = parent_finder(inheritance_graph)
    /\ parents_pc' = "all_parents"
    /\ UNCHANGED << inheritance_graph, the_id, the_set >>
    /\ UNCHANGED << resolverVars, xmlVars, poolVars, rankVars, aliasVars, joinVars, fullVars, klVars, conceptVars >>

AllParentsReturns ==
    /\ parents_pc = "all_parents"
    /\ the_set' = all_parents(parents, the_id, {})
    /\ parents_pc' = "done"
    /\ UNCHANGED << inheritance_graph, the_id, parents >>
    /\ UNCHANGED << resolverVars, xmlVars, poolVars, rankVars, aliasVars, joinVars, fullVars, klVars, conceptVars >>

ParentsNext == ParentFinderBuilt \/ AllParentsReturns

SpecParents == ParentsInit /\ [][ParentsNext]_vars

(***************************************************************************)
(* write_csv as a state machine: the checks and the header, then one step  *)
(* per line of the dump.  It catches no exception: whatever a line raises  *)
(* ends the call.                                                          *)
(***************************************************************************)
\* The lines the loop of line 439 iterates.
CsvLines == islice(buffered_lines_with_progress(wikidata_dump), csv_limit)

JoinStep(pc, error) ==
    /\ csv_pc' = pc
    /\ csv_error' = error
    /\ UNCHANGED << wikidata_dump, whitelist, csv_limit >>
    /\ UNCHANGED << resolverVars, xmlVars, poolVars, rankVars, aliasVars, parentVars, fullVars, klVars, conceptVars >>

\* Lines 397-437.
WriteCsvOpen ==
    /\ csv_pc = "open"
    /\ IF DOMAIN wiki_to_alias_shelf # CsvWikis(wiki_to_article_shelf, whitelist)
       THEN JoinStep("raised", "RuntimeError")
       ELSE JoinStep("rows", "none")
    /\ UNCHANGED << csv_i, csv_rows, entry >>

\* Lines 439-447: one iteration of the loop.
WriteCsvRow ==
    /\ csv_pc = "rows"
    /\ csv_i < Len(CsvLines)
    /\ LET line == CsvLines[csv_i + 1]
           parsed == parse_dump_line(line, whitelist)
           r == row_dict_from_line(line, wiki_to_article_shelf, wiki_to_alias_shelf,
                                   ChainParents, whitelist)
       IN  /\ csv_i' = csv_i + 1
           /\ entry' = parsed.value
           /\ IF r.error # "none"
              THEN /\ JoinStep("raised", r.error)
                   /\ UNCHANGED csv_rows
              ELSE /\ JoinStep("rows", "none")
                   /\ csv_rows' = IF IsNone(r.value) THEN csv_rows
                                  ELSE Append(csv_rows, r.value)

\* The loop is exhausted: the file is closed and write_csv returns.
WriteCsvReturns ==
    /\ csv_pc = "rows"
    /\ csv_i = Len(CsvLines)
    /\ JoinStep("done", "none")
    /\ UNCHANGED << csv_i, csv_rows, entry >>

JoinNext == WriteCsvOpen \/ WriteCsvRow \/ WriteCsvReturns

SpecJoin == JoinInit /\ [][JoinNext]_vars

(***************************************************************************)
(* write_full_wiki_csv as a state machine: one step per result of          *)
(* pool.imap in pass one (results come in the order of the lines), then    *)
(* pass two and the statistics.                                            *)
(***************************************************************************)
FullLines == islice(buffered_lines_with_progress(full_dump), full_limit)

FullStep(pc, error) ==
    /\ full_pc' = pc
    /\ full_error' = error
    /\ UNCHANGED << full_dump, full_limit >>
    /\ UNCHANGED << resolverVars, xmlVars, poolVars, rankVars, aliasVars, parentVars,
                    joinVars, klVars, conceptVars >>

\* Lines 234-302: one iteration of the loop of pass one.
PassOneRow ==
    /\ full_pc = "pass_one"
    /\ full_i < Len(FullLines)
    /\ full_i' = full_i + 1
    /\ UNCHANGED full_rows
    /\ \E out \in { PassOneResult(
                        parse_wd_with_shelf_func(FullLines[full_i + 1], FullShelf,
                                                 build_alias_map(FullShelf)),
                        ChainParents, num_considered, name_to_id,
                        intermediate_rows) } :
          /\ FullStep(out.pc, out.error)
          /\ num_considered' = out.num_considered
          /\ name_to_id' = out.name_to_id
          /\ intermediate_rows' = out.intermediate_rows

\* Lines 304-330: pass two over the intermediate file, then the statistics,
\* which divide by num_considered.
PassTwo ==
    /\ full_pc = "pass_one"
    /\ full_i = Len(FullLines)
    /\ full_rows' = SecondPass(intermediate_rows, name_to_id)
    /\ IF num_considered = 0
       THEN FullStep("raised", "ZeroDivisionError")
       ELSE FullStep("done", "none")
    /\ UNCHANGED << full_i, num_considered, name_to_id, intermediate_rows >>

FullNext == PassOneRow \/ PassTwo

SpecFull == FullInit /\ [][FullNext]_vars

(***************************************************************************)
(* kl_divergence_rank as a state machine: one step per entry of the loop   *)
(* of lines 127-132, then the rest of the function.                        *)
(***************************************************************************)
KlStep(pc, error) ==
    /\ kl_pc' = pc
    /\ kl_error' = error
    /\ UNCHANGED << common_articles, kl_type, np_float >>
    /\ UNCHANGED << resolverVars, xmlVars, poolVars, rankVars, aliasVars, parentVars,
                    joinVars, fullVars, conceptVars >>

\* Lines 127-132: one entry: both PageRanks stored, then the two asserts.
KlLoopEntry ==
    /\ kl_pc = "loop"
    /\ kl_i < Len(common_articles)
    /\ kl_i' = kl_i + 1
    /\ from_prs' = [from_prs EXCEPT ![kl_i + 1] =
                       common_articles[kl_i + 1].from_article.pagerank]
    /\ to_prs' = [to_prs EXCEPT ![kl_i + 1] =
                     common_articles[kl_i + 1].to_article.pagerank]
    /\ IF common_articles[kl_i + 1].from_article.pagerank > 0
            /\ common_articles[kl_i + 1].to_article.pagerank > 0
       THEN KlStep("loop", "none")
       ELSE KlStep("raised", "AssertionError")
    /\ UNCHANGED kl_result

\* Lines 134-158: normalisation, divergence, ranks and the sorted list.
KlReturns ==
    /\ kl_pc = "loop"
    /\ kl_i = Len(common_articles)
    /\ \E out \in { KlAfterLoop(common_articles, from_prs, to_prs, kl_type,
                                np_float) } :
         /\ KlStep(IF out.error = "none" THEN "returned" ELSE "raised", out.error)
         /\ kl_result' = IF out.error = "none" THEN out.value ELSE kl_result
    /\ UNCHANGED << kl_i, from_prs, to_prs >>

KlNext == KlLoopEntry \/ KlReturns

SpecKL == KlInit /\ [][KlNext]_vars

(***************************************************************************)
(* The joiner's accumulation of a row's ancestors (pipelines.py lines      *)
(* 371-373): one call of all_parents per direct class, all on one set.     *)
(* direct_instance_of is a Python set, so the loop takes its elements in   *)
(* an order the program does not fix: any element left may come next.      *)
(***************************************************************************)
ConceptsStep ==
    /\ UNCHANGED << inheritance_graph, the_id, parents, the_set, parents_pc >>
    /\ UNCHANGED direct_classes
    /\ UNCHANGED << resolverVars, xmlVars, poolVars, rankVars, aliasVars, joinVars, fullVars, klVars >>

\* Lines 372-373: one turn of the loop.
AccumulateAllParents(class) ==
    /\ parents_pc = "all_parents"
    /\ concepts_pc = "loop"
    /\ class \in classes_todo
    /\ recursive_instance_concepts' =
           all_parents(parents, class, recursive_instance_concepts)
    /\ classes_todo' = classes_todo \ {class}
    /\ UNCHANGED concepts_pc
    /\ ConceptsStep

\* The loop has taken every element.
AccumulationEnds ==
    /\ parents_pc = "all_parents"
    /\ concepts_pc = "loop"
    /\ classes_todo = {}
    /\ concepts_pc' = "done"
    /\ UNCHANGED << classes_todo, recursive_instance_concepts >>
    /\ ConceptsStep

ConceptsNext ==
    \/ ParentFinderBuilt
    \/ \E class \in ConceptIds : AccumulateAllParents(class)
    \/ AccumulationEnds

SpecConcepts == ConceptsInit /\ [][ConceptsNext]_vars

(***************************************************************************)
(* Claims about the resolver                                               *)
(***************************************************************************)
Yielded == { yielded[i] : i \in DOMAIN yielded }

YieldedTitles == { a.title : a \in Yielded }

DistinctTitles(input) ==
    \A i, j \in DOMAIN input : input[i].title = input[j].title => i = j

\* What the input says, independently of the resolver's walk.
RedirectSources == { parsed_pages[i].title :
                       i \in { j \in DOMAIN parsed_pages :
                                 Truthy(parsed_pages[j].redirect) } }

TerminalTitles == { parsed_pages[i].title :
                      i \in { j \in DOMAIN parsed_pages :
                                ~Truthy(parsed_pages[j].redirect) } }

TargetOf(s) ==
    parsed_pages[CHOOSE i \in DOMAIN parsed_pages : parsed_pages[i].title = s].redirect

\* Where the chain of redirect pages that starts at pointer t goes: to a
\* terminal title, to a title of no page (dangling), or round in a cycle
\* (a chain longer than the number of pages has revisited a pointer).
RECURSIVE ChainFate(_, _)
ChainFate(t, fuel) ==
    IF t \in TerminalTitles THEN [fate |-> "terminal", end |-> t]
    ELSE IF t \notin RedirectSources THEN [fate |-> "dangling", end |-> None]
    ELSE IF fuel = 0 THEN [fate |-> "cycle", end |-> None]
    ELSE ChainFate(TargetOf(t), fuel - 1)

FateOf(s) == ChainFate(TargetOf(s), Len(parsed_pages))

\* C1: when the resolver is done, every key of the links and of the inlinks of
\* every yielded article is the title of a yielded article.
C1_LinksAndInlinksAreTerminal ==
    resolver_pc = "done" =>
        \A a \in Yielded :
            /\ DOMAIN a.links \subseteq YieldedTitles
            /\ DOMAIN a.inlinks \subseteq YieldedTitles

\* C1 witness: a finished run that dropped a dead link and kept a live one.
C1_Witness ==
    /\ resolver_pc = "done"
    /\ bad_link_count > 0
    /\ \E a \in Yielded : DOMAIN a.links # {} /\ DOMAIN a.inlinks # {}

\* C2: when the resolver is done, for every ordered pair (a, b) of yielded
\* articles the outlink count a.links[b] equals the inlink count b.inlinks[a].
C2_LinkInlinkSymmetry ==
    resolver_pc = "done" =>
        \A a, b \in Yielded :
            CounterGet(a.links, b.title) = CounterGet(b.inlinks, a.title)

\* C2 witness: a finished run in which two raw links of one page ("a" through
\* its capitalised variant, and "A") were added up on one target, and one in
\* which a link reached its target through a redirect.
C2_Witness ==
    /\ resolver_pc = "done"
    /\ \E a, b \in Yielded : CounterGet(a.links, b.title) = 3
                             /\ CounterGet(b.inlinks, a.title) = 3
    /\ resolved_count > 0

\* C3: for parsed pages with distinct titles, s is an alias of article t exactly
\* when s is a redirect source whose chain ends at the terminal title t, then
\* redirects[s] = t, and no alias belongs to two articles; in the chain scenario
\* C.aliases = {A, B}, D.inlinks = {C: 1}, resolved = 2, cycles = 0, dangling = 0.
C3_RedirectClosure ==
    (resolver_pc = "done" /\ DistinctTitles(parsed_pages)) =>
        /\ \A t \in Yielded :
               t.aliases = { s \in RedirectSources : FateOf(s).end = t.title }
        /\ \A s \in RedirectSources :
               FateOf(s).fate = "terminal" => redirects.val[s] = FateOf(s).end
        /\ \A t, u \in Yielded : t # u => t.aliases \cap u.aliases = {}
        /\ parsed_pages \in Reorderings(ChainScenario) =>
               /\ \E pc \in Yielded : pc.title = tC /\ pc.aliases = {tA, tB}
               /\ \E d \in Yielded : d.title = tD /\ d.inlinks = (tC :> 1)
               /\ resolved_count = 2
               /\ circle_count = 0
               /\ unresolvable_count = 0

\* C3 witness: the chain scenario run to the end, both redirects resolved.
C3_Witness ==
    /\ resolver_pc = "done"
    /\ parsed_pages = ChainScenario
    /\ redirects.val[tA] = tC
    /\ resolved_count = 2

\* C4 as claimed: for parsed pages with distinct titles every redirect source
\* whose chain revisits a pointer is counted as a cycle and left unresolved; the
\* cycle scenario gives cycles = 2, resolved = 0, dangling = 0 and no alias.
C4_CyclesCounted ==
    (resolver_pc = "done" /\ DistinctTitles(parsed_pages)) =>
        /\ circle_count =
             Cardinality({ s \in RedirectSources : FateOf(s).fate = "cycle" })
        /\ \A s \in RedirectSources :
               FateOf(s).fate = "cycle" => redirects.val[s] = None
        /\ parsed_pages = CycleScenario =>
               /\ circle_count = 2
               /\ resolved_count = 0
               /\ unresolvable_count = 0
               /\ \A a \in Yielded : a.aliases = {}

\* C5 as claimed: every reordering of the parsed pages yields the same set of
\* canonical articles (same id, aliases, links and inlinks).
C5_OrderIndependent ==
    resolver_pc = "done" =>
        \A q \in Reorderings(parsed_pages) : resolve_parsed_pages(q) = Yielded

\* C5 amended: for parsed pages with distinct titles, every reordering of the
\* parsed pages yields the same set of canonical articles.
C5_OrderIndependentDistinctTitles ==
    (resolver_pc = "done" /\ DistinctTitles(parsed_pages)) =>
        \A q \in Reorderings(parsed_pages) : resolve_parsed_pages(q) = Yielded

\* C5 witness: three distinctly titled pages, one a resolved redirect and one
\* with an inlink, run to the end.
C5_Witness ==
    /\ resolver_pc = "done"
    /\ DistinctTitles(parsed_pages)
    /\ Len(parsed_pages) = 3
    /\ \E a \in Yielded : a.aliases # {}
    /\ \E a \in Yielded : DOMAIN a.inlinks # {}


\* The variant of C21: the first character upper-cased, the others unchanged.
UpperFirst(s) == IF s = <<>> THEN s ELSE <<Upper(s[1])>> \o Tail(s)

\* One candidate as C21 states it: the redirect map before the terminal set.
ClaimedCandidate(link) ==
    IF DictHas(redirects, link) /\ redirects.val[link] # None
    THEN redirects.val[link]
    ELSE IF link \in TerminalTitles THEN link ELSE None

ClaimedTarget(raw_link) ==
    IF ClaimedCandidate(raw_link) # None THEN ClaimedCandidate(raw_link)
    ELSE ClaimedCandidate(UpperFirst(raw_link))

\* The links Counter C21 gives the terminal page p.
ClaimedLinks(p) ==
    [t \in { ClaimedTarget(r) : r \in DOMAIN p.links } \ {None} |->
        SumCounts(p.links, { r \in DOMAIN p.links : ClaimedTarget(r) = t })]

\* C21 as claimed: for parsed pages with distinct titles, every raw link of a
\* terminal page is resolved verbatim or, failing that, as the variant with
\* only its first character upper-cased, the redirect map before the terminal
\* set for each candidate; the raw link "nY" resolves to the article "NY".
C21_FirstUpperVariantResolves ==
    (resolver_pc = "done" /\ DistinctTitles(parsed_pages)) =>
        \A a \in Yielded :
            \A i \in DOMAIN parsed_pages :
                parsed_pages[i].title = a.title =>
                    a.links = ClaimedLinks(parsed_pages[i])
(***************************************************************************)
(* Claims about WikiXMLHandler                                             *)
(***************************************************************************)
\* The content of the id element that is a direct child of the page, as the
\* document has it; None for a page without one.
DirectChildId(parts) ==
    IF \E i \in DOMAIN parts : parts[i] = "id"
    THEN strip(PartEvents("id")[2].data)
    ELSE None

\* C6 as claimed: characters that arrive when the revision text is over the
\* cap are discarded without an exception: the handler raises no
\* AttributeError and the parse goes on.
C6_OversizedTextIsTruncated ==
    /\ sax_error # "AttributeError"
    /\ (handler.in_revision_text
          /\ handler.revision_text_length > revision_text_limit)
         => sax_error = "none"

\* C7 as claimed: the id of every emitted page is the content of the id element
\* that is a direct child of its page element, whatever ids its revision holds.
C7_PageIdIsDirectChild ==
    \A k \in 1..Len(queue) :
        DirectChildId(document[k]) # None => queue[k].id = DirectChildId(document[k])


\* How many of the parts of a page are of the given kinds.
CountParts(parts, kinds) == Cardinality({ i \in DOMAIN parts : parts[i] \in kinds })

\* A page record that C22 calls corrupt: a page element inside it, a second
\* title element (the first one empty or not), or a second revision element
\* (after the first one or inside it).
Offending(parts) ==
    \/ CountParts(parts, {"page"}) > 0
    \/ CountParts(parts, {"title", "empty_title"}) > 1
    \/ CountParts(parts, {"revision", "big_revision", "nested_revision"}) > 1
    \/ CountParts(parts, {"nested_revision"}) > 0

\* C22 as claimed: the handler raises at a nested page, a second title or a
\* second revision, so no page record that has one of them is emitted.
C22_CorruptRecordIsNotEmitted ==
    \A k \in 1..Len(queue) : ~Offending(document[k])

\* Whether a page has an element of one of the given kinds.
HasPart(parts, kinds) == CountParts(parts, kinds) > 0

\* The fields of an emitted page that no element of its own page can have set.
IdIsOwn(k) ==
    ~HasPart(document[k], {"id", "revision"}) => queue[k].id = None

TitleIsOwn(k) ==
    ~HasPart(document[k], {"title", "empty_title"}) => queue[k].title = None

RedirectIsOwn(k) ==
    ~HasPart(document[k], {"redirect"}) => queue[k].redirect = None

TextIsOwn(k) ==
    ~HasPart(document[k], {"revision", "big_revision", "nested_revision"}) =>
        queue[k].text = None

\* C29 as claimed: every emitted page takes its id, title, redirect and text
\* only from elements of its own page element: a page without an id, a title,
\* a redirect or a revision text is emitted with that field empty, never with
\* the value an earlier page left.
C29_FieldsComeFromOwnPage ==
    \A k \in 1..Len(queue) :
        IdIsOwn(k) /\ TitleIsOwn(k) /\ RedirectIsOwn(k) /\ TextIsOwn(k)
(***************************************************************************)
(* Claims about parsed_wikipedia_pages                                     *)
(***************************************************************************)
Range(s) == { s[i] : i \in DOMAIN s }

\* The pages that workers have put on the writer queue so far.
PutOnWriterQueue ==
    UNION { Range(feeder[w]) : w \in Workers } \cup Range(writer_queue)
      \cup Range(pages)

\* A worker's wtp.parse has raised an exception that is no TimeoutError.
SomeWorkerRaised == \E w \in Workers : worker_pc[w] \in {"crashing", "crashed"}

\* The parent waits in reader_queue.put on a full queue that no process reads.
MainBlockedForever ==
    /\ main_pc \in {"parse", "poison"}
    /\ Len(reader_queue) = ReaderQueueSize
    /\ \A w \in Workers : ~is_alive(w)

\* C8 as claimed: once a worker has raised an error, parsed_wikipedia_pages
\* never returns normally and never waits for ever on the reader queue (it
\* terminates the workers and raises).
C8_WorkerErrorSurfaces ==
    /\ main_pc = "returned" => ~SomeWorkerRaised
    /\ ~MainBlockedForever

\* C9: a timeout drops only its own page and the run completes: when
\* parsed_wikipedia_pages has returned and no worker has raised, every page
\* that was put on the reader queue and did not time out has been put on the
\* writer queue and no page that timed out has; a TimeoutError moves no process
\* out of its loop and never makes the parent raise; and as long as no worker
\* has raised, the run is never stuck short of returning or raising.
C9_TimeoutDropsOnlyThatPage ==
    /\ (main_pc = "returned" /\ ~SomeWorkerRaised) =>
          PutOnWriterQueue =
             { i \in 1..page_count : stream[i].kind = "ok" }
    /\ main_pc = "raised" =>
          (page_count < Len(stream) /\ stream[page_count + 1].kind = "corrupt")
    /\ (~SomeWorkerRaised /\ main_pc \notin {"returned", "raised"}) =>
          ENABLED PoolNext

\* C9 witness: both workers had a timeout, the page after the two timed out
\* pages was parsed by one of them and returned.
C9_Witness ==
    /\ main_pc = "returned"
    /\ Len(stream) = 3
    /\ stream[1].kind = "timeout"
    /\ stream[2].kind = "timeout"
    /\ stream[3].kind = "ok"
    /\ limit = 0
    /\ pages = <<3>>


\* The dump has at least limit pages: its first limit records are pages.
AtLeastLimitPages ==
    /\ limit > 0
    /\ Len(stream) >= limit
    /\ \A i \in 1..limit : stream[i].kind # "corrupt"

\* wtp.parse raises on none of the first n pages of the dump.
NoneRaises(n) == \A i \in 1..n : stream[i].kind # "raise"

\* What C23 says of a run with a limit, while it runs and once it returned.
StopsAtLimit ==
    /\ page_count <= limit
    /\ main_pc # "raised"
    /\ main_pc \in {"poison", "drain", "alive", "returned"} => page_count = limit
    /\ main_pc = "returned" =>
          \A w \in Workers : worker_pc[w] \in {"returned", "crashed"}

C24_ReaderQueueIsBounded ==
    /\ [](Len(reader_queue) <= 10 * Concurrency)
    /\ [][Len(reader_queue) = 10 * Concurrency => page_count' = page_count]_vars

\* C24 witness: the reader queue is full, the handler has the next page of
\* the dump ready and every worker is alive.
C24_Witness ==
    /\ Len(reader_queue) = 10 * Concurrency
    /\ main_pc = "parse"
    /\ page_count < Len(stream)
    /\ \A w \in Workers : is_alive(w)

\* The XML reader has finished and wtp.parse raises on none of the pages it
\* has put on the reader queue.
ReaderFinishedNoFailure ==
    /\ main_pc \in {"poison", "drain", "alive", "returned"}
    /\ NoneRaises(page_count)

\* How many items of a queue are the poison value.
PoisonCount(s) == Cardinality({ i \in DOMAIN s : s[i] = Poison })

\* C25: after the XML reader has finished, one poison value per worker is put
\* behind the pages that remain; a worker that has taken a poison value takes
\* nothing more and terminates; when no worker fails, no poison value is left
\* once all are put and taken, every worker eventually terminates and
\* parsed_wikipedia_pages eventually returns.
C25_PoisonTerminatesWorkers ==
    /\ [](main_pc \in {"drain", "alive", "returned"} =>
             PoisonCount(reader_queue)
               + Cardinality({ w \in Workers :
                                 worker_pc[w] \in {"exiting", "returned"} })
               = Concurrency)
    /\ [][\A w \in Workers :
             worker_pc[w] \in {"exiting", "returned"} =>
                 /\ worker_pc'[w] \in {"exiting", "returned"}
                 /\ unparsed_page'[w] = Poison]_vars
    /\ [][(main_pc = "poison" /\ Len(reader_queue') > Len(reader_queue)) =>
             reader_queue' = Append(reader_queue, Poison)]_vars
    /\ ReaderFinishedNoFailure ~>
          (main_pc = "returned" /\ reader_queue = <<>>
             /\ \A w \in Workers : worker_pc[w] = "returned")

\* C25 witness: a dump of three pages, none failing, read to its end: both
\* workers took their poison value behind the pages and the parent returned.
C25_Witness ==
    /\ main_pc = "returned"
    /\ limit = 0
    /\ Len(stream) = 3
    /\ NoneRaises(3)
    /\ page_count = 3
    /\ reader_queue = <<>>
    /\ \A w \in Workers : worker_pc[w] = "returned" /\ unparsed_page[w] = Poison

\* C26 as claimed: when parsed_wikipedia_pages returns, every page that a
\* worker has put on the writer queue is in the returned list.
C26_EveryPutPageIsReturned ==
    main_pc = "returned" => PutOnWriterQueue \subseteq Range(pages)
(***************************************************************************)
(* Claims about augment_with_pagerank                                      *)
(***************************************************************************)
\* C10: when both calls are done, the in-memory call and the streaming call
\* have built the same title map and the same weighted edges, and have yielded
\* the same pages with the same pagerank and percentile in the same order.
C10_ModesAgree ==
    (\A m \in Modes : rank_pc[m] \in {"done", "KeyError"}) =>
        /\ rank_pc[TRUE] = rank_pc[FALSE]
        /\ title_to_logical_id[TRUE] = title_to_logical_id[FALSE]
        /\ edges[TRUE] = edges[FALSE]
        /\ pageranks[TRUE] = pageranks[FALSE]
        /\ augmented[TRUE] = augmented[FALSE]
        /\ Len(augmented[TRUE]) = Len(canonical_file)

\* C10 witness: both calls done on a file of three pages with edges, whose
\* PageRanks are not all equal.
C10_Witness ==
    /\ \A m \in Modes : rank_pc[m] = "done"
    /\ Len(augmented[FALSE]) = 3
    /\ edges[FALSE] # {}
    /\ augmented[TRUE][1].pagerank # augmented[TRUE][2].pagerank
    /\ augmented[TRUE][1].pagerank_percentile # augmented[TRUE][3].pagerank_percentile

(***************************************************************************)
(* Claims about pagerank_with_percentiles                                  *)
(***************************************************************************)
\* The modes whose percentiles are computed, for a file of N >= 1 articles.
PercentilesComputed ==
    { m \in Modes : rank_pc[m] \in {"zip", "done"} /\ Len(yielded_ranks[m]) >= 1 }

RECURSIVE SumOfRanks(_, _)
SumOfRanks(pcts, i) == IF i = 0 THEN 0 ELSE pcts[i][1] + SumOfRanks(pcts, i - 1)

\* C11: for N >= 1 articles every article has a percentile rank / N with
\* average ranks (the ranks sum to N (N + 1) / 2): it lies in (0, 1], equal
\* PageRanks have equal percentiles and a strictly larger PageRank has a
\* strictly larger percentile.
C11_PercentilesAreAverageRanks ==
    \A m \in PercentilesComputed :
        LET prs == yielded_ranks[m]
            pcts == percentiles[m]
            N == Len(prs)
        IN  /\ Len(pcts) = N
            /\ SumOfRanks(pcts, N) = N * (N + 1)
            /\ \A i \in 1..N :
                  /\ pcts[i][2] = 2 * N
                  /\ 0 < pcts[i][1]
                  /\ pcts[i][1] <= pcts[i][2]
            /\ \A i, j \in 1..N :
                  /\ prs[i] = prs[j] => pcts[i][1] = pcts[j][1]
                  /\ prs[i] > prs[j] => pcts[i][1] > pcts[j][1]

\* C11 witness: three articles, two of them with one PageRank and the third
\* with a larger one, with their percentiles computed.
C11_Witness ==
    \E m \in PercentilesComputed :
        /\ Len(yielded_ranks[m]) = 3
        /\ \E i, j, k \in 1..3 :
              /\ i # j
              /\ yielded_ranks[m][i] = yielded_ranks[m][j]
              /\ yielded_ranks[m][k] > yielded_ranks[m][i]
              /\ percentiles[m][k] = <<6, 6>>
              /\ percentiles[m][i] = <<3, 6>>

\* C12 as claimed: for the ring of three articles all three PageRanks are
\* equal and every pagerank_percentile is 1.0.
C12_RingPercentilesAreOne ==
    \A m \in Modes :
        (canonical_file = RingFile /\ rank_pc[m] = "done") =>
            \A i \in 1..3 :
                /\ augmented[m][i].pagerank = augmented[m][1].pagerank
                /\ augmented[m][i].pagerank_percentile[1]
                     = augmented[m][i].pagerank_percentile[2]


(***************************************************************************)
(* Claims about the PageRank graph                                         *)
(***************************************************************************)
\* The modes whose graph has all its edges.
EdgesComplete ==
    { m \in Modes : rank_pc[m] \in {"pagerank", "yield", "percentiles", "zip", "done"} }

\* The edges that leave a vertex.
OutEdges(m, v) == { e \in edges[m] : e.source = v }

RECURSIVE SumNumerators(_)
SumNumerators(es) ==
    IF es = {} THEN 0
    ELSE LET e == CHOOSE x \in es : TRUE
         IN  e.weight[1] + SumNumerators(es \ {e})

\* C27: in the PageRank graph every article with outlinks has one edge per
\* (target, count) of its links, with weight count / sum of its counts, so
\* that its outgoing weights sum to 1; an article without outlinks has no
\* outgoing edge; every edge ends at the vertex index of its target title.
C27_EdgesAreNormalisedLinks ==
    \A m \in EdgesComplete :
        \A i \in DOMAIN canonical_file :
            LET page == canonical_file[i]
                v == title_to_logical_id[m][page.title]
                norm == SumCounts(page.links, DOMAIN page.links)
            IN  /\ v = i - 1
                /\ Cardinality(OutEdges(m, v)) = Cardinality(DOMAIN page.links)
                /\ \A link \in DOMAIN page.links :
                      \E j \in DOMAIN canonical_file :
                          /\ canonical_file[j].title = link
                          /\ [source |-> v, target |-> j - 1,
                              weight |-> <<page.links[link], norm>>] \in OutEdges(m, v)
                /\ DOMAIN page.links # {} =>
                      \A e \in OutEdges(m, v) :
                          e.weight[2] = SumNumerators(OutEdges(m, v))
                /\ DOMAIN page.links = {} => OutEdges(m, v) = {}

\* C27 witness: the graph is built for a file in which one article has two
\* links with the counts 2 and 1 (the weights 2/3 and 1/3) and another has no
\* outlink.
C27_Witness ==
    \E m \in EdgesComplete :
        /\ \E e, f \in edges[m] :
              /\ e.source = f.source
              /\ e.weight = <<2, 3>>
              /\ f.weight = <<1, 3>>
        /\ \E i \in DOMAIN canonical_file : canonical_file[i].links = EmptyCounter
(***************************************************************************)
(* Claims about the alias store                                            *)
(***************************************************************************)
\* C13 as claimed: populating the alias store from the article store raises
\* nothing, and once it is done the alias store maps every article title to
\* itself and every alias of an article to a title under which the article
\* store holds that article.
C13_AliasRoundTrip ==
    /\ alias_error = "none"
    /\ alias_pc = "done" =>
          \A t \in DOMAIN article_shelf :
              /\ ShelfGet(alias_shelf, t) = t
              /\ \A alias \in article_shelf[t].aliases :
                    /\ alias \in DOMAIN alias_shelf
                    /\ alias_shelf[alias] \in DOMAIN article_shelf
                    /\ article_shelf[alias_shelf[alias]].title = t

(***************************************************************************)
(* Claims about ParentFinder                                               *)
(***************************************************************************)
\* The concepts from which a concept of S is reachable along
\* superclass -> subclass edges, S included: the least set closed under
\* "superclass of a member".
RECURSIVE Ancestors(_, _)
Ancestors(graph_edges, S) ==
    LET T == S \cup { e[1] : e \in { x \in graph_edges : x[2] \in S } }
    IN  IF T = S THEN S ELSE Ancestors(graph_edges, T)

\* C17: for every inheritance graph, cyclic ones included, all_parents(id)
\* returns; what it returns is id with every concept from which id is
\* reachable along superclass -> subclass edges, and for the chain
\* Q5 <- Q215627 <- Q3305213 it is all three for Q3305213.
C17_AllParentsIsAncestorClosure ==
    /\ parents_pc = "all_parents" => ENABLED AllParentsReturns
    /\ parents_pc = "done" =>
          /\ the_set = Ancestors(inheritance_graph, {the_id})
          /\ (inheritance_graph = ChainGraph /\ the_id = Q3305213) =>
                 the_set = {Q3305213, Q215627, Q5}

\* C17 witness: all_parents has returned all three concepts on the cycle
\* through them, asked for a concept of the cycle.
C17_Witness ==
    /\ parents_pc = "done"
    /\ inheritance_graph = CycleGraph
    /\ the_id = Q215627
    /\ the_set = {Q3305213, Q215627, Q5}

(***************************************************************************)
(* Claims about the joiner                                                 *)
(***************************************************************************)
\* The positions of the lines that the loop of write_csv has handled.
HandledLines == 1..csv_i

IsItemLine(line) == hasattr(line, "json") /\ line.json.type = "item"

\* The entity of the line has a claim with a malformed mainsnak.
HasMalformedSnak(line) ==
    \E property \in DOMAIN line.json.claims :
        \E i \in DOMAIN line.json.claims[property] :
            line.json.claims[property][i] \in MalformedSnaks

\* The whitelisted sitelink titles of the entity of a line.
SitelinkTitles(line) == TitlesByWiki(line.json.sitelinks, whitelist)

\* The rows written for a concept id.
RowsOf(id) == { j \in DOMAIN csv_rows : csv_rows[j].concept_id = id }

\* The two cells of wiki w for sitelink titles as the joiner is to emit them.
ClaimedCells(titles, w) ==
    LET shelf == wiki_to_article_shelf[w]
        aliases == wiki_to_alias_shelf[w]
    IN  IF w \notin DOMAIN titles THEN [title |-> None, pagerank |-> NoneFloat]
        ELSE IF titles[w] \in DOMAIN shelf
        THEN [title |-> shelf[titles[w]].title, pagerank |-> shelf[titles[w]].pagerank]
        ELSE IF titles[w] \in DOMAIN aliases /\ aliases[titles[w]] \in DOMAIN shelf
        THEN [title |-> shelf[aliases[titles[w]]].title,
              pagerank |-> shelf[aliases[titles[w]]].pagerank]
        ELSE [title |-> titles[w], pagerank |-> NoneFloat]

\* C14 as claimed: for every well-formed entity with a sitelink that the
\* joiner has handled, it has emitted a row whose cells for every target wiki
\* are the article's title and pagerank (found by title, else through the
\* alias store), else the raw title with a null pagerank, else nulls; a
\* missing article is no error.
C14_JoinerEmitsArticleCells ==
    \A k \in HandledLines :
        LET line == CsvLines[k]
        IN  (/\ IsItemLine(line)
             /\ ~HasMalformedSnak(line)
             /\ DOMAIN SitelinkTitles(line) # {}) =>
                \E j \in RowsOf(line.json.id) :
                    \A w \in DOMAIN wiki_to_article_shelf :
                        csv_rows[j].cells[w] = ClaimedCells(SitelinkTitles(line), w)

\* C15 as claimed: as long as write_csv has raised nothing, it has written
\* exactly one row for every item entity it has read, also for an entity
\* without sitelink in any target wiki.
C15_OneRowPerEntity ==
    csv_pc # "raised" =>
        \A k \in HandledLines :
            IsItemLine(CsvLines[k]) =>
                Cardinality(RowsOf(CsvLines[k].json.id)) = 1

\* The item ids of the P279 claims of the entity of a line.
SubclassIds(line) ==
    IF SUBCLASS_OF \notin DOMAIN line.json.claims THEN {}
    ELSE { line.json.claims[SUBCLASS_OF][i].mainsnak.datavalue.value.id :
             i \in DOMAIN line.json.claims[SUBCLASS_OF] }

\* C16 as claimed: every entity record that parse_dump_line returns carries
\* direct_subclass_of, the item ids of its P279 claims, and the joiner reads
\* that field without error.
C16_EntryCarriesDirectSubclassOf ==
    /\ csv_error # "AttributeError"
    /\ ~IsNone(entry) =>
          /\ hasattr(entry, "direct_subclass_of")
          /\ entry.direct_subclass_of = SubclassIds(CsvLines[csv_i])

\* C18 as claimed: an entity with a malformed mainsnak is skipped and nothing
\* else: no row is written for it and write_csv goes on (it does not raise).
C18_MalformedEntityIsSkipped ==
    \A k \in HandledLines :
        (IsItemLine(CsvLines[k]) /\ HasMalformedSnak(CsvLines[k])) =>
            /\ RowsOf(CsvLines[k].json.id) = {}
            /\ csv_pc # "raised"


\* C30 as claimed: buffered_lines_with_progress yields every line of the file
\* exactly once and in file order, the first line included: the k-th line
\* the loop of write_csv takes is the k-th line of the dump, and without a
\* limit the loop ends having taken as many lines as the dump has.
C30_EveryLineYieldedInFileOrder ==
    /\ csv_pc \in {"rows", "done"} =>
          \A k \in 1..csv_i :
              k <= Len(wikidata_dump) /\ CsvLines[k] = wikidata_dump[k]
    /\ (csv_pc = "done" /\ csv_limit = NoneFloat) => csv_i = Len(wikidata_dump)
(***************************************************************************)
(* Claims about write_full_wiki_csv                                        *)
(***************************************************************************)
\* The results of pass one that have an article, among the lines taken.
RECURSIVE WithArticle(_)
WithArticle(n) ==
    IF n = 0 THEN << >>
    ELSE LET r == parse_wd_with_shelf_func(FullLines[n], FullShelf,
                                           build_alias_map(FullShelf))
         IN  IF r.error = "none" /\ ~IsNone(r.value.entry)
                  /\ Truthy(r.value.wiki_title) /\ ~IsNone(r.value.article)
             THEN Append(WithArticle(n - 1), r.value)
             ELSE WithArticle(n - 1)

\* The concept id that pass one assigns to a title over the whole dump: that
\* of the last entity whose article has the title.
RECURSIVE ConceptIdOf(_, _)
ConceptIdOf(results, title) ==
    IF Len(results) = 0 THEN "None"
    ELSE IF results[Len(results)].wiki_title = title
    THEN results[Len(results)].entry.id
    ELSE ConceptIdOf(SubSeq(results, 1, Len(results) - 1), title)

ClaimedPairs(counter, results) ==
    { << ConceptIdOf(results, t), counter[t] >> :
        t \in { x \in DOMAIN counter : ConceptIdOf(results, x) # "None" } }

\* C19 as claimed: write_full_wiki_csv writes, for every entity with an
\* article, a row whose inlink and outlink pairs are keyed by the concept id
\* that pass one gave the linked title, wherever in the dump that title's
\* entity is; pairs of titles without concept id are dropped, the others keep
\* their count.
C19_LinksKeyedByConceptId ==
    /\ full_error # "AttributeError"
    /\ full_pc = "done" =>
          LET results == WithArticle(Len(FullLines))
          IN  /\ Len(full_rows) = Len(results)
              /\ \A j \in DOMAIN full_rows :
                    /\ full_rows[j].concept_id = results[j].entry.id
                    /\ full_rows[j].inlinks
                         = ClaimedPairs(results[j].article.inlinks, results)
                    /\ full_rows[j].outlinks
                         = ClaimedPairs(results[j].article.links, results)

(***************************************************************************)
(* Claims about kl_divergence_rank                                         *)
(***************************************************************************)
\* C20 as claimed: kl_divergence_rank returns a ranking only for an input
\* that is not empty and in which every PageRank is strictly positive; for
\* an empty input or a PageRank that is not positive it raises.
C20_EmptyOrNonPositiveIsError ==
    kl_pc = "returned" =>
        /\ Len(common_articles) > 0
        /\ \A i \in DOMAIN common_articles :
              /\ common_articles[i].from_article.pagerank > 0
              /\ common_articles[i].to_article.pagerank > 0

(***************************************************************************)
(* Claims about the joiner's shared ancestor set                           *)
(***************************************************************************)
\* The direct classes the loop has taken so far.
ClassesTaken == direct_classes \ classes_todo

\* The union of the separately computed all_parents(c), each on a fresh set.
SeparateUnion(classes) ==
    UNION { all_parents(parents, class, {}) : class \in classes }

\* C28: accumulating all_parents(c, S) into one shared set S over the direct
\* classes of a row yields exactly the union of the separately computed
\* all_parents(c): after every turn of the loop, in whatever order the
\* classes are taken and on every graph, the shared set is that union over
\* the classes taken, which is the set of their ancestors.
C28_SharedSetIsUnionOfAncestors ==
    (parents_pc = "all_parents" /\ concepts_pc \in {"loop", "done"}) =>
        /\ recursive_instance_concepts = SeparateUnion(ClassesTaken)
        /\ recursive_instance_concepts =
               Ancestors(inheritance_graph, ClassesTaken)
        /\ concepts_pc = "done" => ClassesTaken = direct_classes

\* C28 witness: the loop has ended on a graph with a cycle and a superclass
\* outside it, for two classes whose ancestries overlap: the second one taken
\* was already in the shared set or had ancestors in it.
C28_Witness ==
    /\ concepts_pc = "done"
    /\ inheritance_graph = { <<Q5, Q215627>>, <<Q215627, Q5>>, <<Q5, Q3305213>> }
    /\ direct_classes = {Q215627, Q3305213}
    /\ recursive_instance_concepts = {Q5, Q215627, Q3305213}
====
